---- MODULE Spec2Model ----
(***************************************************************************)
(* A model of the Essbase calc-script linter: the keyword scanner          *)
(* (parseEssbase), the comma anomaly detector (findCommaIssues), the       *)
(* balance rules (rules.ts) and the lint pass (lintDocument).              *)
(*                                                                         *)
(* Text is a sequence of one-character strings.  Columns and line numbers  *)
(* are 0-based as in the source; At(s, i) reads s[i] the way JavaScript    *)
(* does (out of range gives the value Undef).                              *)
(***************************************************************************)
EXTENDS Integers, Sequences, FiniteSets, TLC

VARIABLES
  text,     \* the text handed to a scanner
  parser,   \* parseEssbase's locals
  comma,    \* findCommaIssues' locals
  stream,   \* the tokens a rule's loop has gone through, and whether it ended
  fixRule,  \* fixEndfixBalanceRule.apply's locals: stack, diags
  ifRule,   \* ifElseEndifBalanceRule.apply's locals: stack, diags
  config,   \* the essbaseLinter.rules setting: rule id -> entry
  docs,     \* the editor's documents: id -> languageId, text
  collection  \* the diagnostic collection: document id -> published diagnostics

vars == <<text, parser, comma, stream, fixRule, ifRule, config, docs, collection>>

scanVars == <<text, parser, comma>>
ruleVars == <<stream, fixRule, ifRule>>
editorVars == <<config, docs, collection>>

\* the value of a variable the running specification does not use
Idle == "idle"

(* ------------------------------ characters ------------------------------ *)

Undef == "undefined"

UpperLetters ==
  <<"A","B","C","D","E","F","G","H","I","J","K","L","M",
    "N","O","P","Q","R","S","T","U","V","W","X","Y","Z">>

LowerLetters ==
  <<"a","b","c","d","e","f","g","h","i","j","k","l","m",
    "n","o","p","q","r","s","t","u","v","w","x","y","z">>

Digits == {"0","1","2","3","4","5","6","7","8","9"}

Range(s) == {s[k] : k \in 1..Len(s)}

\* /[A-Za-z0-9_]/ : the characters \b and the look-ahead call identifier-like
WordChars == Range(UpperLetters) \cup Range(LowerLetters) \cup Digits \cup {"_"}

IsWordChar(c) == c \in WordChars

\* /\s/ on a character of a line (a line never holds "\n")
IsWhitespace(c) == c \in {" ", "\t", "\r", "\f"}

\* the /i flag: letters compare by their upper-case form
UpperOf ==
  [c \in Range(LowerLetters) |-> UpperLetters[CHOOSE k \in 1..26 : LowerLetters[k] = c]]

ToUpper(c) == IF c \in DOMAIN UpperOf THEN UpperOf[c] ELSE c

UpperCase(s) == [k \in 1..Len(s) |-> ToUpper(s[k])]

\* s[i] with a 0-based index
At(s, i) == IF i >= 0 /\ i < Len(s) THEN s[i + 1] ELSE Undef

\* s.slice(i)
Slice(s, i) == IF i >= Len(s) THEN <<>> ELSE SubSeq(s, i + 1, Len(s))

\* s.startsWith(pat, i)
StartsWith(s, pat, i) ==
  /\ i + Len(pat) <= Len(s)
  /\ \A k \in 1..Len(pat) : s[i + k] = pat[k]

\* s.indexOf(pat, i): the least index >= i where pat starts, or -1
IndexOf(s, pat, i) ==
  IF \E k \in i..Len(s) : StartsWith(s, pat, k)
  THEN CHOOSE k \in i..Len(s) :
         /\ StartsWith(s, pat, k)
         /\ \A m \in i..(k - 1) : ~StartsWith(s, pat, m)
  ELSE -1

\* the decrement left as it is, below 0 too
Max_NoClamp(a, b) == a

Max(a, b) == IF a >= b THEN a ELSE b

\* text.split(/\r?\n/)
SplitLines(t) ==
  LET RECURSIVE go(_, _, _)
      go(k, cur, acc) ==
        IF k > Len(t) THEN Append(acc, cur)
        ELSE IF t[k] = "\n" THEN go(k + 1, <<>>, Append(acc, cur))
        ELSE IF t[k] = "\r" /\ k < Len(t) /\ t[k + 1] = "\n"
             THEN go(k + 2, <<>>, Append(acc, cur))
        ELSE go(k + 1, Append(cur, t[k]), acc)
  IN go(1, <<>>, <<>>)

(* ------------------------------- scanner -------------------------------- *)

OpenComment == <<"/", "*">>
CloseComment == <<"*", "/">>

\* the string skip of the scan loops: i is just past the opening quote; the
\* result is the cursor after the closing quote, or at/after the line end
SkipString(line, i) ==
  LET RECURSIVE go(_)
      go(j) ==
        IF j >= Len(line) THEN j
        ELSE IF line[j + 1] = "\\" THEN go(j + 2)
        ELSE IF line[j + 1] = "\"" THEN j + 1
        ELSE go(j + 1)
  IN go(i)

\* \b at position p of s (0 <= p <= Len(s)): exactly one side is a word character
WordBoundary(s, p) ==
  LET before == p > 0 /\ IsWordChar(s[p])
      after  == p < Len(s) /\ IsWordChar(s[p + 1])
  IN before # after

\* the match reported in the keyword's own spelling, not the text's
KeywordMatch_Normalized(rest, kw) ==
  IF /\ Len(rest) >= Len(kw)
     /\ \A k \in 1..Len(kw) : ToUpper(rest[k]) = kw[k]
     /\ WordBoundary(rest, 0)
     /\ WordBoundary(rest, Len(kw))
  THEN kw
  ELSE <<>>

\* /^\bKW\b/i.exec(rest): the lexeme matched at the start of rest, or <<>>
KeywordMatch(rest, kw) ==
  IF /\ Len(rest) >= Len(kw)
     /\ \A k \in 1..Len(kw) : ToUpper(rest[k]) = kw[k]
     /\ WordBoundary(rest, 0)
     /\ WordBoundary(rest, Len(kw))
  THEN SubSeq(rest, 1, Len(kw))
  ELSE <<>>

\* tryKeyword: the regular expression runs on line.slice(i)
TryKeyword(line, i, kw) == KeywordMatch(Slice(line, i), kw)

\* the keywords in the order parseEssbase tries them
Keywords ==
  << <<"E","L","S","E","I","F">>, <<"E","L","S","E">>, <<"I","F">>,
     <<"E","N","D","I","F">>, <<"F","I","X">>, <<"E","N","D","F","I","X">> >>

KeywordType == <<"ELSEIF", "ELSE", "IF", "ENDIF", "FIX", "ENDFIX">>

\* the first keyword of the list that matches at column i, or 0
FirstKeyword(line, i) ==
  IF \E k \in 1..Len(Keywords) : TryKeyword(line, i, Keywords[k]) # <<>>
  THEN CHOOSE k \in 1..Len(Keywords) :
         /\ TryKeyword(line, i, Keywords[k]) # <<>>
         /\ \A m \in 1..(k - 1) : TryKeyword(line, i, Keywords[m]) = <<>>
  ELSE 0

\* the closing marker's index used unchecked: the -1 of "not found" included
InBlockCommentStep_IndexUnchecked(line, st) ==
  LET end == IndexOf(line, CloseComment, st.i) IN
  [st EXCEPT !.inBlockComment = FALSE, !.i = end + 2]

\* no closing marker on the line and the cursor left where it is
InBlockCommentStep_NoAdvance(line, st) ==
  LET end == IndexOf(line, CloseComment, st.i) IN
  IF end = -1 THEN st
  ELSE [st EXCEPT !.inBlockComment = FALSE, !.i = end + 2]

\* inside a block comment: to the closing marker, or to the end of the line
\* with the flag kept
InBlockCommentStep(line, st) ==
  LET end == IndexOf(line, CloseComment, st.i) IN
  IF end = -1 THEN [st EXCEPT !.i = Len(line)]
  ELSE [st EXCEPT !.inBlockComment = FALSE, !.i = end + 2]

\* parseEssbase's locals before the first line
ParserInit(t) ==
  [lines |-> SplitLines(t), lineNum |-> 0, i |-> 0, inBlockComment |-> FALSE,
   parenDepth |-> 0, bracketDepth |-> 0, tokens |-> <<>>]

ParserDone(st) == st.lineNum >= Len(st.lines)

ParserLine(st) == st.lines[st.lineNum + 1]

\* which branch of the while body runs at the cursor
ParserBranch(st) ==
  LET line == ParserLine(st) IN
  IF st.i >= Len(line) THEN "nextLine"
  ELSE IF st.inBlockComment THEN "inComment"
  ELSE IF StartsWith(line, OpenComment, st.i) THEN "openComment"
  ELSE IF At(line, st.i) = "\"" THEN "string"
  ELSE IF At(line, st.i) \in {"(", ")", "[", "]"} THEN "enclosure"
  ELSE IF FirstKeyword(line, st.i) # 0 THEN "keyword"
  ELSE "advance"

\* the branch b of parseEssbase's loops taken from the state st
ParserStepOn(st, b) ==
  LET line == ParserLine(st)
      c == At(line, st.i)
  IN
  CASE b = "nextLine" -> [st EXCEPT !.lineNum = @ + 1, !.i = 0]
    [] b = "inComment" -> InBlockCommentStep(line, st)
    [] b = "openComment" -> [st EXCEPT !.inBlockComment = TRUE, !.i = @ + 2]
    [] b = "string" -> [st EXCEPT !.i = SkipString(line, st.i + 1)]
    [] b = "enclosure" ->
         IF c = "(" THEN [st EXCEPT !.parenDepth = @ + 1, !.i = @ + 1]
         ELSE IF c = ")" THEN [st EXCEPT !.parenDepth = Max(@ - 1, 0), !.i = @ + 1]
         ELSE IF c = "[" THEN [st EXCEPT !.bracketDepth = @ + 1, !.i = @ + 1]
         ELSE [st EXCEPT !.bracketDepth = Max(@ - 1, 0), !.i = @ + 1]
    [] b = "keyword" ->
         LET k == FirstKeyword(line, st.i)
             lexeme == TryKeyword(line, st.i, Keywords[k])
         IN [st EXCEPT
               !.tokens = Append(@, [type |-> KeywordType[k], line |-> st.lineNum,
                                     column |-> st.i, lexeme |-> lexeme]),
               !.i = st.i + Len(lexeme)]
    [] b = "advance" -> [st EXCEPT !.i = @ + 1]

\* the block comment treated as ending with its line
ParserStep_FlagResetAtLineEnd(st) ==
  IF ParserBranch(st) = "nextLine"
  THEN [st EXCEPT !.lineNum = @ + 1, !.i = 0, !.inBlockComment = FALSE]
  ELSE ParserStepOn(st, ParserBranch(st))

\* the opener taken as one character, its * free to close the comment
ParserStep_OpenerSharesStar(st) ==
  IF ParserBranch(st) = "openComment"
  THEN [st EXCEPT !.inBlockComment = TRUE, !.i = @ + 1]
  ELSE ParserStepOn(st, ParserBranch(st))

\* one iteration of the inner loop, or the step to the next line
ParserStep(st) == ParserStepOn(st, ParserBranch(st))

\* parseEssbase(text): the token list when the loops end
parseEssbase(t) ==
  LET RECURSIVE run(_)
      run(st) == IF ParserDone(st) THEN st.tokens ELSE run(ParserStep(st))
  IN run(ParserInit(t))

(* ---------------------------- comma detector --------------------------- *)

\* the null result of the look-ahead
Null == [line |-> -1, col |-> -1, char |-> Undef]

\* the look-ahead with the comment opener stepped over and the flag not set
findFirstSignificantCharFrom_FlagNotSet(lines, startLine, inBlockCommentStart) ==
  LET RECURSIVE go(_, _, _)
      go(ln, i, inBlockComment) ==
        IF ln >= Len(lines) THEN Null
        ELSE LET line == lines[ln + 1] IN
          IF i >= Len(line) THEN go(ln + 1, 0, inBlockComment)
          ELSE IF inBlockComment
          THEN LET end == IndexOf(line, CloseComment, i) IN
               IF end = -1 THEN go(ln + 1, 0, TRUE)
               ELSE go(ln, end + 2, FALSE)
          ELSE IF IsWhitespace(line[i + 1]) THEN go(ln, i + 1, FALSE)
          ELSE IF StartsWith(line, OpenComment, i) THEN go(ln, i + 2, FALSE)
          ELSE [line |-> ln, col |-> i, char |-> line[i + 1]]
  IN go(startLine, 0, inBlockCommentStart)

\* findFirstSignificantCharFrom(lines, startLine, inBlockCommentStart)
findFirstSignificantCharFrom(lines, startLine, inBlockCommentStart) ==
  LET RECURSIVE go(_, _, _)
      go(ln, i, inBlockComment) ==
        IF ln >= Len(lines) THEN Null
        ELSE LET line == lines[ln + 1] IN
          IF i >= Len(line) THEN go(ln + 1, 0, inBlockComment)
          ELSE IF inBlockComment
          THEN LET end == IndexOf(line, CloseComment, i) IN
               IF end = -1 THEN go(ln + 1, 0, TRUE)
               ELSE go(ln, end + 2, FALSE)
          ELSE IF IsWhitespace(line[i + 1]) THEN go(ln, i + 1, FALSE)
          ELSE IF StartsWith(line, OpenComment, i) THEN go(ln, i + 2, TRUE)
          ELSE [line |-> ln, col |-> i, char |-> line[i + 1]]
  IN go(startLine, 0, inBlockCommentStart)

\* nextNonWSOnLine(s, idx)
nextNonWSOnLine(s, idx) ==
  LET RECURSIVE go(_)
      go(j) == IF j < Len(s) /\ IsWhitespace(s[j + 1]) THEN go(j + 1) ELSE j
  IN go(idx)

Closers == {")", "]"}

\* findCommaIssues' locals before the first line
CommaInit(t) ==
  [lines |-> SplitLines(t), lineNum |-> 0, i |-> 0, inBlockComment |-> FALSE,
   parenDepth |-> 0, bracketDepth |-> 0, issues |-> <<>>]

CommaDone(st) == st.lineNum >= Len(st.lines)

CommaLine(st) == st.lines[st.lineNum + 1]

\* which branch of findCommaIssues' while body runs at the cursor
CommaBranch(st) ==
  LET line == CommaLine(st)
      j == nextNonWSOnLine(line, st.i + 1)
  IN
  IF st.i >= Len(line) THEN "nextLine"
  ELSE IF st.inBlockComment THEN "inComment"
  ELSE IF StartsWith(line, OpenComment, st.i) THEN "openComment"
  ELSE IF At(line, st.i) = "\"" THEN "string"
  ELSE IF At(line, st.i) \in {"(", ")", "[", "]"} THEN "enclosure"
  ELSE IF At(line, st.i) = "," THEN
         IF j < Len(line) /\ At(line, j) = "," THEN "sameLineDouble"
         ELSE IF j < Len(line) /\ At(line, j) \in Closers THEN "sameLineTrailing"
         ELSE IF j >= Len(line) THEN
                IF ~((st.parenDepth + st.bracketDepth) > 0) THEN "endOfLineOutside"
                ELSE "endOfLineInside"
         ELSE "commaContent"
  ELSE "advance"

\* the end-of-line comma inside (...) or [...] (lines 170-185)
EndOfLineInside(st) ==
  LET nextSig == findFirstSignificantCharFrom(st.lines, st.lineNum + 1, st.inBlockComment)
  IN IF nextSig # Null /\ nextSig.char \in Closers
     THEN [st EXCEPT
             !.issues = Append(@, [kind |-> "trailing", line |-> st.lineNum,
                                   startCol |-> st.i, endCol |-> st.i + 1]),
             !.i = @ + 1]
     ELSE IF nextSig # Null /\ nextSig.char = ","
     THEN [st EXCEPT
             !.issues = Append(@, [kind |-> "double", line |-> st.lineNum,
                                   startCol |-> st.i, endCol |-> nextSig.col + 1]),
             !.i = @ + 1]
     ELSE [st EXCEPT !.i = @ + 1]

\* the enclosure test left out: every end-of-line comma handled as enclosed
EndOfLineOutside_AsInside(st) == EndOfLineInside(st)

\* the end-of-line comma outside any enclosure (lines 160-168)
EndOfLineOutside(st) ==
  LET nextSig == findFirstSignificantCharFrom(st.lines, st.lineNum + 1, st.inBlockComment)
  IN IF nextSig # Null /\ nextSig.char = ","
     THEN [st EXCEPT
             !.issues = Append(@, [kind |-> "double", line |-> st.lineNum,
                                   startCol |-> st.i, endCol |-> nextSig.col + 1]),
             !.i = @ + 1]
     ELSE [st EXCEPT !.i = @ + 1]

\* the same-line double comma (lines 143-147): the cursor goes past the second comma
SameLineDouble(line, st) ==
  LET j == nextNonWSOnLine(line, st.i + 1) IN
  [st EXCEPT
     !.issues = Append(@, [kind |-> "double", line |-> st.lineNum,
                           startCol |-> st.i, endCol |-> j + 1]),
     !.i = j + 1]

\* the same-line trailing comma (lines 150-154)
SameLineTrailing(line, st) ==
  [st EXCEPT
     !.issues = Append(@, [kind |-> "trailing", line |-> st.lineNum,
                           startCol |-> st.i, endCol |-> st.i + 1]),
     !.i = @ + 1]

\* one iteration of findCommaIssues' while loop (or the for loop's step to the next line)
CommaStep(st) ==
  LET line == CommaLine(st)
      c == At(line, st.i)
      b == CommaBranch(st)
  IN
  CASE b = "nextLine" -> [st EXCEPT !.lineNum = @ + 1, !.i = 0]
    [] b = "inComment" -> InBlockCommentStep(line, st)
    [] b = "openComment" -> [st EXCEPT !.inBlockComment = TRUE, !.i = @ + 2]
    [] b = "string" -> [st EXCEPT !.i = SkipString(line, st.i + 1)]
    [] b = "enclosure" ->
         IF c = "(" THEN [st EXCEPT !.parenDepth = @ + 1, !.i = @ + 1]
         ELSE IF c = ")" THEN [st EXCEPT !.parenDepth = Max(@ - 1, 0), !.i = @ + 1]
         ELSE IF c = "[" THEN [st EXCEPT !.bracketDepth = @ + 1, !.i = @ + 1]
         ELSE [st EXCEPT !.bracketDepth = Max(@ - 1, 0), !.i = @ + 1]
    [] b = "sameLineDouble" -> SameLineDouble(line, st)
    [] b = "sameLineTrailing" -> SameLineTrailing(line, st)
    [] b = "endOfLineOutside" -> EndOfLineOutside(st)
    [] b = "endOfLineInside" -> EndOfLineInside(st)
    [] b = "commaContent" -> [st EXCEPT !.i = @ + 1]
    [] b = "advance" -> [st EXCEPT !.i = @ + 1]

\* findCommaIssues(text): the issue list when the loops end
findCommaIssues(t) ==
  LET RECURSIVE run(_)
      run(st) == IF CommaDone(st) THEN st.issues ELSE run(CommaStep(st))
  IN run(CommaInit(t))

(* -------------------------------- rules -------------------------------- *)

\* options.severity ?? dflt
SeverityOr(options, dflt) == IF options.severity = Undef THEN dflt ELSE options.severity

\* the range ends where it starts: the lexeme length left out
TokenDiag_NoLength(code, message, severity, t) ==
  [code |-> code, message |-> message, severity |-> severity,
   start |-> [line |-> t.line, character |-> t.column],
   end |-> [line |-> t.line, character |-> t.column]]

\* a RuleDiagnostic spanning the token t (the dash of two messages is written --)
TokenDiag(code, message, severity, t) ==
  [code |-> code, message |-> message, severity |-> severity,
   start |-> [line |-> t.line, character |-> t.column],
   end |-> [line |-> t.line, character |-> t.column + Len(t.lexeme)]]

Pop(stack) == SubSeq(stack, 1, Len(stack) - 1)

RuleInit == [stack |-> <<>>, diags |-> <<>>]

\* an ENDFIX that finds a FIX on the stack leaves it there
FixStep_NoPop(st, t, options) ==
  IF t.type = "FIX" THEN [st EXCEPT !.stack = Append(@, t)]
  ELSE IF t.type = "ENDFIX" /\ Len(st.stack) = 0
  THEN [st EXCEPT !.diags = Append(@,
          TokenDiag("essbase.fix.unmatchedEndfix", "Unmatched ENDFIX -- no preceding FIX.",
                    SeverityOr(options, "error"), t))]
  ELSE st

\* one stack for FIX and IF: an ENDFIX must find a FIX on top
FixStep_SharedStack(st, t, options) ==
  IF t.type \in {"FIX", "IF"} THEN [st EXCEPT !.stack = Append(@, t)]
  ELSE IF t.type = "ENDFIX" THEN
    IF Len(st.stack) = 0 \/ st.stack[Len(st.stack)].type # "FIX"
    THEN [st EXCEPT !.diags = Append(@,
            TokenDiag("essbase.fix.unmatchedEndfix", "Unmatched ENDFIX -- no preceding FIX.",
                      SeverityOr(options, "error"), t))]
    ELSE [st EXCEPT !.stack = Pop(@)]
  ELSE IF t.type = "ENDIF" /\ Len(st.stack) > 0 /\ st.stack[Len(st.stack)].type = "IF"
  THEN [st EXCEPT !.stack = Pop(@)]
  ELSE st

\* fixEndfixBalanceRule.apply: the body of the loop over the tokens
FixStep(st, t, options) ==
  IF t.type = "FIX" THEN [st EXCEPT !.stack = Append(@, t)]
  ELSE IF t.type = "ENDFIX" THEN
    IF Len(st.stack) = 0
    THEN [st EXCEPT !.diags = Append(@,
            TokenDiag("essbase.fix.unmatchedEndfix", "Unmatched ENDFIX -- no preceding FIX.",
                      SeverityOr(options, "error"), t))]
    ELSE [st EXCEPT !.stack = Pop(@)]
  ELSE st

\* fixEndfixBalanceRule.apply: the loop over the stack after the tokens
FixFinish(st, options) ==
  [st EXCEPT !.diags = @ \o
     [k \in 1..Len(st.stack) |->
        TokenDiag("essbase.fix.missingEndfix", "Missing ENDFIX for this FIX.",
                  SeverityOr(options, "error"), st.stack[k])]]

\* the ELSE case with elseSeen never set
IfElseCase_FlagNotSet(st, t, options) ==
  IF Len(st.stack) = 0
  THEN [st EXCEPT !.diags = Append(@,
          TokenDiag("essbase.if.unexpectedElse", "ELSE found outside of an IF block.",
                    SeverityOr(options, "error"), t))]
  ELSE IF st.stack[Len(st.stack)].elseSeen
  THEN [st EXCEPT !.diags = Append(@,
          TokenDiag("essbase.if.duplicateElse", "Duplicate ELSE in the same IF block.",
                    SeverityOr(options, "error"), t))]
  ELSE st

\* the ELSE case with one elseSeen shared by all the open frames
IfElseCase_FlagOnAllFrames(st, t, options) ==
  IF Len(st.stack) = 0
  THEN [st EXCEPT !.diags = Append(@,
          TokenDiag("essbase.if.unexpectedElse", "ELSE found outside of an IF block.",
                    SeverityOr(options, "error"), t))]
  ELSE IF st.stack[Len(st.stack)].elseSeen
  THEN [st EXCEPT !.diags = Append(@,
          TokenDiag("essbase.if.duplicateElse", "Duplicate ELSE in the same IF block.",
                    SeverityOr(options, "error"), t))]
  ELSE [st EXCEPT !.stack = [f \in 1..Len(st.stack) |-> [st.stack[f] EXCEPT !.elseSeen = TRUE]]]

\* ifElseEndifBalanceRule.apply: the ELSE case of the switch
IfElseCase(st, t, options) ==
  IF Len(st.stack) = 0
  THEN [st EXCEPT !.diags = Append(@,
          TokenDiag("essbase.if.unexpectedElse", "ELSE found outside of an IF block.",
                    SeverityOr(options, "error"), t))]
  ELSE IF st.stack[Len(st.stack)].elseSeen
  THEN [st EXCEPT !.diags = Append(@,
          TokenDiag("essbase.if.duplicateElse", "Duplicate ELSE in the same IF block.",
                    SeverityOr(options, "error"), t))]
  ELSE [st EXCEPT !.stack[Len(st.stack)].elseSeen = TRUE]

\* the ELSEIF case refusing an ELSEIF that follows the frame's ELSE
IfElseifCase_AfterElseRefused(st, t, options) ==
  IF Len(st.stack) = 0
  THEN [st EXCEPT !.diags = Append(@,
          TokenDiag("essbase.if.unexpectedElseif", "ELSEIF found outside of an IF block.",
                    SeverityOr(options, "error"), t))]
  ELSE IF st.stack[Len(st.stack)].elseSeen
  THEN [st EXCEPT !.diags = Append(@,
          TokenDiag("essbase.if.unexpectedElseif", "ELSEIF found outside of an IF block.",
                    SeverityOr(options, "error"), t))]
  ELSE st

\* ifElseEndifBalanceRule.apply: the ELSEIF case of the switch
IfElseifCase(st, t, options) ==
  IF Len(st.stack) = 0
  THEN [st EXCEPT !.diags = Append(@,
          TokenDiag("essbase.if.unexpectedElseif", "ELSEIF found outside of an IF block.",
                    SeverityOr(options, "error"), t))]
  ELSE st

\* ifElseEndifBalanceRule.apply: the body of the loop over the tokens
IfStep(st, t, options) ==
  CASE t.type = "IF" -> [st EXCEPT !.stack = Append(@, [ifToken |-> t, elseSeen |-> FALSE])]
    [] t.type = "ELSEIF" -> IfElseifCase(st, t, options)
    [] t.type = "ELSE" -> IfElseCase(st, t, options)
    [] t.type = "ENDIF" ->
         IF Len(st.stack) = 0
         THEN [st EXCEPT !.diags = Append(@,
                 TokenDiag("essbase.if.unmatchedEndif", "Unmatched ENDIF -- no preceding IF.",
                           SeverityOr(options, "error"), t))]
         ELSE [st EXCEPT !.stack = Pop(@)]
    [] OTHER -> st

\* ifElseEndifBalanceRule.apply: the loop over the stack after the tokens
IfFinish(st, options) ==
  [st EXCEPT !.diags = @ \o
     [k \in 1..Len(st.stack) |->
        TokenDiag("essbase.if.missingEndif", "Missing ENDIF for this IF.",
                  SeverityOr(options, "error"), st.stack[k].ifToken)]]

\* a RuleDiagnostic for a comma issue
IssueDiag(code, message, severity, issue) ==
  [code |-> code, message |-> message, severity |-> severity,
   start |-> [line |-> issue.line, character |-> issue.startCol],
   end |-> [line |-> issue.line, character |-> issue.endCol]]

\* the optional argument context: left out, or { text }
NoContext == [given |-> FALSE, text |-> <<>>]

Context(t) == [given |-> TRUE, text |-> t]

\* !context?.text : no context, or an empty text
NoContextText(context) == ~context.given \/ context.text = <<>>

\* the diagnostics rogueCommaRule makes of the issues, in their order
CommaDiags(issues, severity) ==
  [k \in 1..Len(issues) |->
     IF issues[k].kind = "trailing"
     THEN IssueDiag("essbase.comma.trailing",
                    "Trailing comma before closing bracket/parenthesis.",
                    severity, issues[k])
     ELSE IssueDiag("essbase.comma.double", "Consecutive commas detected.",
                    severity, issues[k])]

\* rogueCommaRule.apply(_tokens, options, context)
rogueCommaRule(tokens, options, context) ==
  IF NoContextText(context) THEN <<>>
  ELSE CommaDiags(findCommaIssues(context.text), SeverityOr(options, "warning"))

\* nestedFixOrderRule.apply()
nestedFixOrderRule(tokens, options, context) == <<>>

\* rule.apply(tokens, options) of the two balance rules: the diags returned
fixEndfixBalanceRule(tokens, options) ==
  LET RECURSIVE run(_, _)
      run(k, st) == IF k > Len(tokens) THEN FixFinish(st, options).diags
                    ELSE run(k + 1, FixStep(st, tokens[k], options))
  IN run(1, RuleInit)

ifElseEndifBalanceRule(tokens, options) ==
  LET RECURSIVE run(_, _)
      run(k, st) == IF k > Len(tokens) THEN IfFinish(st, options).diags
                    ELSE run(k + 1, IfStep(st, tokens[k], options))
  IN run(1, RuleInit)

(* ------------------------------ lint pass ------------------------------- *)

\* ALL_RULES, by id, in registry order
ALL_RULES ==
  <<"essbase.fix.balance", "essbase.if.balance", "essbase.syntax.rogueComma",
    "essbase.fix.nesting">>

\* rule.apply(tokens, options, context) of the rule with the id
Apply(id, tokens, options, context) ==
  CASE id = "essbase.fix.balance" -> fixEndfixBalanceRule(tokens, options)
    [] id = "essbase.if.balance" -> ifElseEndifBalanceRule(tokens, options)
    [] id = "essbase.syntax.rogueComma" -> rogueCommaRule(tokens, options, context)
    [] id = "essbase.fix.nesting" -> nestedFixOrderRule(tokens, options, context)

\* The setting maps the rule ids it has entries for to records; the values
\* of enabled are written "true", "false" and Undef.

\* ruleConfig[rule.id] ?? { enabled: true, severity: 'error' }
RuleConfigOf(cfg, id) ==
  IF id \in DOMAIN cfg THEN cfg[id] ELSE [enabled |-> "true", severity |-> "error"]

\* toVscodeSeverity
toVscodeSeverity(sev) ==
  CASE sev = "warning" -> "Warning"
    [] sev = "info" -> "Information"
    [] OTHER -> "Error"

\* push: the vscode.Diagnostic made from a RuleDiagnostic
ToDiagnostic(rd) ==
  [range |-> [start |-> rd.start, end |-> rd.end], message |-> rd.message,
   severity |-> toVscodeSeverity(rd.severity), code |-> rd.code,
   source |-> "Essbase Linter"]

\* res.forEach(push)
ToDiagnostics(res) == [k \in 1..Len(res) |-> ToDiagnostic(res[k])]

\* the context lintDocument hands to rule.apply: it passes two arguments
LintContext(docText) == NoContext

\* the loop over ALL_RULES left at the first disabled rule (break for continue)
LintDiagnostics_BreakOnDisabled(docText, cfg) ==
  LET tokens == parseEssbase(docText)
      RECURSIVE loop(_)
      loop(r) ==
        IF r > Len(ALL_RULES) THEN <<>>
        ELSE LET rc == RuleConfigOf(cfg, ALL_RULES[r]) IN
          IF rc.enabled = "false" THEN <<>>
          ELSE ToDiagnostics(Apply(ALL_RULES[r], tokens, rc, LintContext(docText)))
                 \o loop(r + 1)
  IN loop(1)

\* the diags lintDocument builds for a text: the loop over ALL_RULES
LintDiagnostics(docText, cfg) ==
  LET tokens == parseEssbase(docText)
      RECURSIVE loop(_)
      loop(r) ==
        IF r > Len(ALL_RULES) THEN <<>>
        ELSE LET rc == RuleConfigOf(cfg, ALL_RULES[r]) IN
          IF rc.enabled = "false" THEN loop(r + 1)
          ELSE ToDiagnostics(Apply(ALL_RULES[r], tokens, rc, LintContext(docText)))
                 \o loop(r + 1)
  IN loop(1)

\* the new diags added to those the collection holds for the uri
CollectionSet_Append(coll, uri, diags) ==
  [u \in DOMAIN coll \cup {uri} |->
     IF u = uri THEN (IF uri \in DOMAIN coll THEN coll[uri] ELSE <<>>) \o diags
     ELSE coll[u]]

\* collection.set(uri, diags)
CollectionSet(coll, uri, diags) ==
  [u \in DOMAIN coll \cup {uri} |-> IF u = uri THEN diags ELSE coll[u]]

\* lintDocument(doc, collection) under the setting cfg: the collection afterwards
lintDocument(uri, doc, coll, cfg) ==
  IF doc.languageId # "essbase" THEN coll
  ELSE CollectionSet(coll, uri, LintDiagnostics(doc.text, cfg))

(* ------------------------------ quick fixes ----------------------------- *)

Min(a, b) == IF a <= b THEN a ELSE b

\* leadingWS(text): what /^(\s*)/ captures
leadingWS(line) == SubSeq(line, 1, nextNonWSOnLine(line, 0))

\* document.lineCount, document.lineAt(line).text
LineCount(document) == Len(SplitLines(document.text))

LineAt(document, line) == SplitLines(document.text)[line + 1]

\* the CodeAction of the two cases of the switch: one insertion of the
\* closing keyword under the diagnostic's line
InsertAction(document, diag, title, keyword) ==
  LET line == diag.range.start.line
      indent == leadingWS(LineAt(document, line))
  IN [title |-> title,
      edit |-> [position |-> [line |-> Min(line + 1, LineCount(document)), character |-> 0],
                newText |-> indent \o keyword \o <<"\n">>],
      diagnostics |-> <<diag>>,
      isPreferred |-> TRUE]

\* the insertion on the line of the diagnostic itself (line for line + 1)
InsertAction_SameLine(document, diag, title, keyword) ==
  LET line == diag.range.start.line
      indent == leadingWS(LineAt(document, line))
  IN [title |-> title,
      edit |-> [position |-> [line |-> Min(line, LineCount(document)), character |-> 0],
                newText |-> indent \o keyword \o <<"\n">>],
      diagnostics |-> <<diag>>,
      isPreferred |-> TRUE]

\* EssbaseQuickFixProvider.provideCodeActions(document, _range, context),
\* diagnostics being context.diagnostics
provideCodeActions(document, diagnostics) ==
  LET RECURSIVE loop(_)
      loop(k) ==
        IF k > Len(diagnostics) THEN <<>>
        ELSE LET diag == diagnostics[k] IN
          IF diag.code = "essbase.fix.missingEndfix"
          THEN <<InsertAction(document, diag, "Insert ENDFIX", <<"E","N","D","F","I","X">>)>>
                 \o loop(k + 1)
          ELSE IF diag.code = "essbase.if.missingEndif"
          THEN <<InsertAction(document, diag, "Insert ENDIF", <<"E","N","D","I","F">>)>>
                 \o loop(k + 1)
          ELSE loop(k + 1)
  IN loop(1)

\* The editor applies the edit of a chosen action.  A position on a line of
\* the document is an offset into its text; a position past the last line
\* is not in the document, and the editor either moves it to the end of the
\* document or does not apply the edit.

\* the offset of the start of a line (lines end with "\n")
LineStart(t, line) ==
  LET RECURSIVE go(_, _)
      go(k, l) == IF l = line THEN k - 1
                  ELSE IF t[k] = "\n" THEN go(k + 1, l + 1)
                  ELSE go(k + 1, l)
  IN go(1, 0)

InsertAt(t, offset, s) == SubSeq(t, 1, offset) \o s \o SubSeq(t, offset + 1, Len(t))

\* the texts the document can have after the edit
EditOutcomes(t, edit) ==
  IF edit.position.line < Len(SplitLines(t))
  THEN {InsertAt(t, LineStart(t, edit.position.line), edit.newText)}
  ELSE {t \o edit.newText, t}

(* ------------------------------ input texts ----------------------------- *)

Flatten(ps) ==
  LET RECURSIVE go(_)
      go(k) == IF k > Len(ps) THEN <<>> ELSE ps[k] \o go(k + 1)
  IN go(1)

TextsOf(pieces, n) ==
  {Flatten(f) : f \in UNION {[1..m -> pieces] : m \in 0..n}}

MaxParsePieces == 3

ParsePieces ==
  { <<"F","I","X">>, <<"I","f">>, <<"E","L","S","E">>, <<"E","N","D">>,
    <<"P","R","E">>, <<" ">>, <<"\n">>, <<"/","*">>, <<"*","/">>, <<"\"">>, <<"\\">>, <<"(">>, <<")">> }

MaxCommaPieces == 3

CommaPieces ==
  { <<"(">>, <<"(", ",">>, <<")">>, <<"[">>, <<"]">>, <<",">>, <<",", "\n">>, <<"\n">>,
    <<"a">>, <<" ">>, <<"/","*">>, <<"*","/">>, <<"\"">>,
    <<"/","*",")","*","/">>, <<"(", ",", "\n">> }


(* --------------------------- scanner, stepwise -------------------------- *)

ParseNextLine ==
  /\ ~ParserDone(parser)
  /\ ParserBranch(parser) = "nextLine"
  /\ parser' = ParserStep(parser)
  /\ UNCHANGED <<text, comma, ruleVars, editorVars>>

ParseInComment ==
  /\ ~ParserDone(parser)
  /\ ParserBranch(parser) = "inComment"
  /\ parser' = ParserStep(parser)
  /\ UNCHANGED <<text, comma, ruleVars, editorVars>>

ParseOpenComment ==
  /\ ~ParserDone(parser)
  /\ ParserBranch(parser) = "openComment"
  /\ parser' = ParserStep(parser)
  /\ UNCHANGED <<text, comma, ruleVars, editorVars>>

ParseString ==
  /\ ~ParserDone(parser)
  /\ ParserBranch(parser) = "string"
  /\ parser' = ParserStep(parser)
  /\ UNCHANGED <<text, comma, ruleVars, editorVars>>

ParseEnclosure ==
  /\ ~ParserDone(parser)
  /\ ParserBranch(parser) = "enclosure"
  /\ parser' = ParserStep(parser)
  /\ UNCHANGED <<text, comma, ruleVars, editorVars>>

ParseKeyword ==
  /\ ~ParserDone(parser)
  /\ ParserBranch(parser) = "keyword"
  /\ parser' = ParserStep(parser)
  /\ UNCHANGED <<text, comma, ruleVars, editorVars>>

ParseAdvance ==
  /\ ~ParserDone(parser)
  /\ ParserBranch(parser) = "advance"
  /\ parser' = ParserStep(parser)
  /\ UNCHANGED <<text, comma, ruleVars, editorVars>>

InitParse ==
  /\ text \in TextsOf(ParsePieces, MaxParsePieces)
  /\ parser = ParserInit(text)
  /\ comma = Idle
  /\ stream = Idle /\ fixRule = Idle /\ ifRule = Idle
  /\ config = Idle /\ docs = Idle /\ collection = Idle

NextParse ==
  \/ ParseNextLine
  \/ ParseInComment
  \/ ParseOpenComment
  \/ ParseString
  \/ ParseEnclosure
  \/ ParseKeyword
  \/ ParseAdvance

SpecParse == InitParse /\ [][NextParse]_vars

(* ----------------------- comma detector, stepwise ---------------------- *)

CommaNextLine ==
  /\ ~CommaDone(comma)
  /\ CommaBranch(comma) = "nextLine"
  /\ comma' = CommaStep(comma)
  /\ UNCHANGED <<text, parser, ruleVars, editorVars>>

CommaInComment ==
  /\ ~CommaDone(comma)
  /\ CommaBranch(comma) = "inComment"
  /\ comma' = CommaStep(comma)
  /\ UNCHANGED <<text, parser, ruleVars, editorVars>>

CommaOpenComment ==
  /\ ~CommaDone(comma)
  /\ CommaBranch(comma) = "openComment"
  /\ comma' = CommaStep(comma)
  /\ UNCHANGED <<text, parser, ruleVars, editorVars>>

CommaString ==
  /\ ~CommaDone(comma)
  /\ CommaBranch(comma) = "string"
  /\ comma' = CommaStep(comma)
  /\ UNCHANGED <<text, parser, ruleVars, editorVars>>

CommaEnclosure ==
  /\ ~CommaDone(comma)
  /\ CommaBranch(comma) = "enclosure"
  /\ comma' = CommaStep(comma)
  /\ UNCHANGED <<text, parser, ruleVars, editorVars>>

CommaSameLineDouble ==
  /\ ~CommaDone(comma)
  /\ CommaBranch(comma) = "sameLineDouble"
  /\ comma' = CommaStep(comma)
  /\ UNCHANGED <<text, parser, ruleVars, editorVars>>

CommaSameLineTrailing ==
  /\ ~CommaDone(comma)
  /\ CommaBranch(comma) = "sameLineTrailing"
  /\ comma' = CommaStep(comma)
  /\ UNCHANGED <<text, parser, ruleVars, editorVars>>

CommaEndOfLineOutside ==
  /\ ~CommaDone(comma)
  /\ CommaBranch(comma) = "endOfLineOutside"
  /\ comma' = CommaStep(comma)
  /\ UNCHANGED <<text, parser, ruleVars, editorVars>>

CommaEndOfLineInside ==
  /\ ~CommaDone(comma)
  /\ CommaBranch(comma) = "endOfLineInside"
  /\ comma' = CommaStep(comma)
  /\ UNCHANGED <<text, parser, ruleVars, editorVars>>

CommaContent ==
  /\ ~CommaDone(comma)
  /\ CommaBranch(comma) = "commaContent"
  /\ comma' = CommaStep(comma)
  /\ UNCHANGED <<text, parser, ruleVars, editorVars>>

CommaAdvance ==
  /\ ~CommaDone(comma)
  /\ CommaBranch(comma) = "advance"
  /\ comma' = CommaStep(comma)
  /\ UNCHANGED <<text, parser, ruleVars, editorVars>>

InitComma ==
  /\ text \in TextsOf(CommaPieces, MaxCommaPieces)
  /\ comma = CommaInit(text)
  /\ parser = Idle
  /\ stream = Idle /\ fixRule = Idle /\ ifRule = Idle
  /\ config = Idle /\ docs = Idle /\ collection = Idle

NextComma ==
  \/ CommaNextLine
  \/ CommaInComment
  \/ CommaOpenComment
  \/ CommaString
  \/ CommaEnclosure
  \/ CommaSameLineDouble
  \/ CommaSameLineTrailing
  \/ CommaEndOfLineOutside
  \/ CommaEndOfLineInside
  \/ CommaContent
  \/ CommaAdvance

SpecComma == InitComma /\ [][NextComma]_vars

(* ------------------------ balance rules, stepwise ----------------------- *)

\* The two rules loop over the same token list and share nothing, so the
\* loops are run side by side: a step hands the next token to both loop
\* bodies, and the end of the list runs both final loops.

MaxTokens == 5

\* the options of a rule whose entry sets nothing
NoOptions == [enabled |-> Undef, severity |-> Undef]

\* the token of keyword k that follows the tokens so far: after one space on
\* the same line, or alone on the next line
NextToken(k) ==
  LET n == Len(stream.tokens)
      last == stream.tokens[n]
  IN [type |-> KeywordType[k], lexeme |-> Keywords[k],
      line |-> IF stream.layout = "oneLine" THEN 0 ELSE n,
      column |-> IF stream.layout = "oneLine" /\ n > 0
                 THEN last.column + Len(last.lexeme) + 1 ELSE 0]

\* the loops can take one more token
CanFeed == ~stream.ended /\ Len(stream.tokens) < MaxTokens

FeedELSEIF ==
  /\ CanFeed
  /\ stream' = [stream EXCEPT !.tokens = Append(@, NextToken(1))]
  /\ fixRule' = FixStep(fixRule, NextToken(1), NoOptions)
  /\ ifRule' = IfStep(ifRule, NextToken(1), NoOptions)
  /\ UNCHANGED <<scanVars, editorVars>>

FeedELSE ==
  /\ CanFeed
  /\ stream' = [stream EXCEPT !.tokens = Append(@, NextToken(2))]
  /\ fixRule' = FixStep(fixRule, NextToken(2), NoOptions)
  /\ ifRule' = IfStep(ifRule, NextToken(2), NoOptions)
  /\ UNCHANGED <<scanVars, editorVars>>

FeedIF ==
  /\ CanFeed
  /\ stream' = [stream EXCEPT !.tokens = Append(@, NextToken(3))]
  /\ fixRule' = FixStep(fixRule, NextToken(3), NoOptions)
  /\ ifRule' = IfStep(ifRule, NextToken(3), NoOptions)
  /\ UNCHANGED <<scanVars, editorVars>>

FeedENDIF ==
  /\ CanFeed
  /\ stream' = [stream EXCEPT !.tokens = Append(@, NextToken(4))]
  /\ fixRule' = FixStep(fixRule, NextToken(4), NoOptions)
  /\ ifRule' = IfStep(ifRule, NextToken(4), NoOptions)
  /\ UNCHANGED <<scanVars, editorVars>>

FeedFIX ==
  /\ CanFeed
  /\ stream' = [stream EXCEPT !.tokens = Append(@, NextToken(5))]
  /\ fixRule' = FixStep(fixRule, NextToken(5), NoOptions)
  /\ ifRule' = IfStep(ifRule, NextToken(5), NoOptions)
  /\ UNCHANGED <<scanVars, editorVars>>

FeedENDFIX ==
  /\ CanFeed
  /\ stream' = [stream EXCEPT !.tokens = Append(@, NextToken(6))]
  /\ fixRule' = FixStep(fixRule, NextToken(6), NoOptions)
  /\ ifRule' = IfStep(ifRule, NextToken(6), NoOptions)
  /\ UNCHANGED <<scanVars, editorVars>>

EndOfTokens ==
  /\ ~stream.ended
  /\ stream' = [stream EXCEPT !.ended = TRUE]
  /\ fixRule' = FixFinish(fixRule, NoOptions)
  /\ ifRule' = IfFinish(ifRule, NoOptions)
  /\ UNCHANGED <<scanVars, editorVars>>

InitRules ==
  /\ stream \in [layout : {"oneLine", "perLine"}, tokens : {<<>>}, ended : {FALSE}]
  /\ fixRule = RuleInit
  /\ ifRule = RuleInit
  /\ text = Idle /\ parser = Idle /\ comma = Idle
  /\ config = Idle /\ docs = Idle /\ collection = Idle

NextRules ==
  \/ FeedELSEIF
  \/ FeedELSE
  \/ FeedIF
  \/ FeedENDIF
  \/ FeedFIX
  \/ FeedENDFIX
  \/ EndOfTokens

SpecRules == InitRules /\ [][NextRules]_vars

(* ------------------------ the scans of one text ------------------------ *)

\* One text goes through parseEssbase, then its tokens through the loops of
\* the two balance rules, and through findCommaIssues.  The scans share
\* nothing but the text.

MaxScanPieces == 2

ScanPieces ==
  { <<"F","I","X">>, <<"E","N","D","I","F">>, <<",">>, <<"\n">>, <<"/","*">>, <<"*","/">>,
    <<"\"">>, <<"\\">>, <<"(">>, <<")">>, <<"\n","F","I","X">>, <<",",",">> }

\* for (const t of tokens): the next token of the parser's list, to both rules
RulesTakeToken ==
  /\ ParserDone(parser)
  /\ ~stream.ended
  /\ Len(stream.tokens) < Len(parser.tokens)
  /\ LET t == parser.tokens[Len(stream.tokens) + 1] IN
       /\ stream' = [stream EXCEPT !.tokens = Append(@, t)]
       /\ fixRule' = FixStep(fixRule, t, NoOptions)
       /\ ifRule' = IfStep(ifRule, t, NoOptions)
  /\ UNCHANGED <<scanVars, editorVars>>

\* the token list is through: the loops over the stacks, and the return
RulesFinish ==
  /\ ParserDone(parser)
  /\ ~stream.ended
  /\ Len(stream.tokens) = Len(parser.tokens)
  /\ stream' = [stream EXCEPT !.ended = TRUE]
  /\ fixRule' = FixFinish(fixRule, NoOptions)
  /\ ifRule' = IfFinish(ifRule, NoOptions)
  /\ UNCHANGED <<scanVars, editorVars>>

InitScan ==
  /\ text \in TextsOf(ScanPieces, MaxScanPieces)
  /\ parser = ParserInit(text)
  /\ comma = CommaInit(text)
  /\ stream = [layout |-> "source", tokens |-> <<>>, ended |-> FALSE]
  /\ fixRule = RuleInit
  /\ ifRule = RuleInit
  /\ config = Idle /\ docs = Idle /\ collection = Idle

NextScan ==
  \/ ParseNextLine
  \/ ParseInComment
  \/ ParseOpenComment
  \/ ParseString
  \/ ParseEnclosure
  \/ ParseKeyword
  \/ ParseAdvance
  \/ RulesTakeToken
  \/ RulesFinish
  \/ CommaNextLine
  \/ CommaInComment
  \/ CommaOpenComment
  \/ CommaString
  \/ CommaEnclosure
  \/ CommaSameLineDouble
  \/ CommaSameLineTrailing
  \/ CommaEndOfLineOutside
  \/ CommaEndOfLineInside
  \/ CommaContent
  \/ CommaAdvance

\* the calls are synchronous: a scan that can take a step takes it
SpecScan == InitScan /\ [][NextScan]_vars /\ WF_vars(NextScan)

(* -------------------- the two scanners side by side -------------------- *)

\* the positions of line ln from column i up to, not including, column j
Span(lines, ln, i, j) == {<<ln, c>> : c \in i..(Min(j, Len(lines[ln + 1])) - 1)}

NothingSkipped == [comment |-> {}, string |-> {}]

\* the positions a loop passes over as block comment or as string when it
\* takes the branch b from the state st to the state st2
SkippedBy(st, b, st2) ==
  IF b \in {"inComment", "openComment"}
  THEN [comment |-> Span(st.lines, st.lineNum, st.i, st2.i), string |-> {}]
  ELSE IF b = "string"
  THEN [comment |-> {}, string |-> Span(st.lines, st.lineNum, st.i, st2.i)]
  ELSE NothingSkipped

Both(a, b) == [comment |-> a.comment \cup b.comment, string |-> a.string \cup b.string]

\* parseEssbase(text): the positions it passes over as comment or string
ParserSkips(t) ==
  LET RECURSIVE run(_, _)
      run(st, acc) ==
        IF ParserDone(st) THEN acc
        ELSE run(ParserStep(st), Both(acc, SkippedBy(st, ParserBranch(st), ParserStep(st))))
  IN run(ParserInit(t), NothingSkipped)

\* findCommaIssues(text): the positions its main loop passes over as comment
\* or string
CommaSkips(t) ==
  LET RECURSIVE run(_, _)
      run(st, acc) ==
        IF CommaDone(st) THEN acc
        ELSE run(CommaStep(st), Both(acc, SkippedBy(st, CommaBranch(st), CommaStep(st))))
  IN run(CommaInit(t), NothingSkipped)

\* findFirstSignificantCharFrom: the positions it passes over as block
\* comment before it returns
LookaheadSkips(lines, startLine, inBlockCommentStart) ==
  LET RECURSIVE go(_, _, _, _)
      go(ln, i, inBlockComment, acc) ==
        IF ln >= Len(lines) THEN acc
        ELSE LET line == lines[ln + 1] IN
          IF i >= Len(line) THEN go(ln + 1, 0, inBlockComment, acc)
          ELSE IF inBlockComment
          THEN LET end == IndexOf(line, CloseComment, i) IN
               IF end = -1 THEN go(ln + 1, 0, TRUE, acc \cup Span(lines, ln, i, Len(line)))
               ELSE go(ln, end + 2, FALSE, acc \cup Span(lines, ln, i, end + 2))
          ELSE IF IsWhitespace(line[i + 1]) THEN go(ln, i + 1, FALSE, acc)
          ELSE IF StartsWith(line, OpenComment, i)
          THEN go(ln, i + 2, TRUE, acc \cup Span(lines, ln, i, i + 2))
          ELSE acc
  IN go(startLine, 0, inBlockCommentStart, {})

MaxSkipPieces == 3

SkipPieces ==
  { <<"I","F">>, <<",">>, <<"\n">>, <<"/","*">>, <<"*","/">>, <<"\"">>, <<"(">>, <<")">> }

InitSkips ==
  /\ text \in TextsOf(SkipPieces, MaxSkipPieces)
  /\ parser = ParserInit(text)
  /\ comma = CommaInit(text)
  /\ stream = Idle /\ fixRule = Idle /\ ifRule = Idle
  /\ config = Idle /\ docs = Idle /\ collection = Idle

NextSkips ==
  \/ ParseNextLine
  \/ ParseInComment
  \/ ParseOpenComment
  \/ ParseString
  \/ ParseEnclosure
  \/ ParseKeyword
  \/ ParseAdvance
  \/ CommaNextLine
  \/ CommaInComment
  \/ CommaOpenComment
  \/ CommaString
  \/ CommaEnclosure
  \/ CommaSameLineDouble
  \/ CommaSameLineTrailing
  \/ CommaEndOfLineOutside
  \/ CommaEndOfLineInside
  \/ CommaContent
  \/ CommaAdvance

SpecSkips == InitSkips /\ [][NextSkips]_vars

(* ------------------------------ the editor ------------------------------ *)

\* the longest text of the calc script, in characters
MaxDocChars == 8

\* what a change of the calc script types at its end
DocPieces ==
  { <<" ","F","I","X">>, <<"E","L","S","E">>, <<"(",",",")">>, <<"\n">>,
    <<"E","N","D","F","I","X">>, <<"/","*">> }

\* calc is the calc script being edited, other a second calc script, notes a
\* plain-text file
DocIds == {"calc", "other", "notes"}

\* the entries a rule can have in the setting; the last one is garbled (the
\* setting is read unvalidated: enabled a string, severity an unknown word)
ConfigEntries ==
  { [enabled |-> "true", severity |-> Undef],
    [enabled |-> Undef, severity |-> "info"],
    [enabled |-> "false", severity |-> Undef],
    [enabled |-> "yes", severity |-> "fatal"] }

RuleIds == Range(ALL_RULES)

\* the settings: nothing configured, every rule with the same entry, or one
\* balance rule alone with an entry that disables it or is garbled
Configs ==
  {[id \in {} |-> NoOptions]}
    \cup {[id \in RuleIds |-> e] : e \in ConfigEntries}
    \cup UNION {{[id \in {r} |-> e] : e \in {x \in ConfigEntries : x.enabled \notin {"true", Undef}}}
                  : r \in {"essbase.fix.balance", "essbase.if.balance"}}

\* onDidOpenTextDocument
OpenTextDocument ==
  \E d \in DocIds :
    /\ collection' = lintDocument(d, docs[d], collection, config)
    /\ UNCHANGED <<config, docs, scanVars, ruleVars>>

\* onDidChangeTextDocument, after the edit
ChangeTextDocument ==
  \E piece \in DocPieces :
    /\ Len(docs["calc"].text) + Len(piece) <= MaxDocChars
    /\ docs' = [docs EXCEPT !["calc"].text = @ \o piece]
    /\ collection' = lintDocument("calc", docs'["calc"], collection, config)
    /\ UNCHANGED <<config, scanVars, ruleVars>>

\* onDidChangeActiveTextEditor: maybeLintActive with the editor now active
ChangeActiveTextEditor ==
  \E ed \in DocIds \cup {Undef} :
    /\ collection' = IF ed = Undef THEN collection
                     ELSE lintDocument(ed, docs[ed], collection, config)
    /\ UNCHANGED <<config, docs, scanVars, ruleVars>>

\* a quick fix offered for a published diagnostic is chosen: the editor
\* applies its edit, and the change of the document is linted
ApplyQuickFix ==
  \E d \in DOMAIN collection : \E k \in 1..Len(collection[d]) :
    LET actions == provideCodeActions(docs[d], <<collection[d][k]>>) IN
    /\ actions # <<>>
    /\ \E t2 \in EditOutcomes(docs[d].text, actions[1].edit) :
         /\ Len(t2) <= 2 * MaxDocChars
         /\ docs' = [docs EXCEPT ![d].text = t2]
         /\ collection' = IF t2 = docs[d].text THEN collection
                          ELSE lintDocument(d, docs'[d], collection, config)
    /\ UNCHANGED <<config, scanVars, ruleVars>>

\* activate: an empty collection, and the initial lint of the active editor,
\* which shows the second calc script
Init ==
  /\ config \in Configs
  /\ docs = [d \in DocIds |->
               IF d = "calc" THEN [languageId |-> "essbase", text |-> <<>>]
               ELSE IF d = "other" THEN [languageId |-> "essbase", text |-> <<"I","F">>]
               ELSE [languageId |-> "plaintext", text |-> <<"F","I","X">>]]
  /\ collection = lintDocument("other", docs["other"], [d \in {} |-> <<>>], config)
  /\ text = Idle /\ parser = Idle /\ comma = Idle
  /\ stream = Idle /\ fixRule = Idle /\ ifRule = Idle

Next ==
  \/ OpenTextDocument
  \/ ChangeTextDocument
  \/ ChangeActiveTextEditor
  \/ ApplyQuickFix

Spec == Init /\ [][Next]_vars

(* ---------------------- claims about the scanner ------------------------ *)

\* the positions <<line, column>> of a text that lie inside a block comment
\* (from its opener through its closer, over line ends) or inside a
\* double-quoted string (after the opening quote, before the closing one, a
\* backslash taking the next character with it; a string ends with its line)
InsideCommentOrString(lines) ==
  LET RECURSIVE walk(_, _, _, _)
      walk(l, c, mode, acc) ==
        IF l >= Len(lines) THEN acc
        ELSE LET line == lines[l + 1] IN
          IF c >= Len(line)
          THEN walk(l + 1, 0, IF mode = "comment" THEN "comment" ELSE "code", acc)
          ELSE IF mode = "comment"
          THEN IF StartsWith(line, CloseComment, c)
               THEN walk(l, c + 2, "code", acc \cup {<<l, c>>, <<l, c + 1>>})
               ELSE walk(l, c + 1, "comment", acc \cup {<<l, c>>})
          ELSE IF mode = "string"
          THEN IF line[c + 1] = "\\"
               THEN walk(l, c + 2, "string", acc \cup {<<l, c>>, <<l, c + 1>>})
               ELSE IF line[c + 1] = "\""
               THEN walk(l, c + 1, "code", acc)
               ELSE walk(l, c + 1, "string", acc \cup {<<l, c>>})
          ELSE IF StartsWith(line, OpenComment, c)
          THEN walk(l, c + 2, "comment", acc \cup {<<l, c>>, <<l, c + 1>>})
          ELSE IF line[c + 1] = "\""
          THEN walk(l, c + 1, "string", acc)
          ELSE walk(l, c + 1, "code", acc)
  IN walk(0, 0, "code", {})

\* a keyword is spelled at column c of the line, whatever surrounds it
KeywordSpelledAt(line, c) ==
  \E k \in 1..Len(Keywords) :
    /\ c + Len(Keywords[k]) <= Len(line)
    /\ UpperCase(SubSeq(line, c + 1, c + Len(Keywords[k]))) = Keywords[k]

TokenEnd(t) == t.column + Len(t.lexeme)

\* C1: a token is emitted only where the character before its column and the
\* character after its lexeme (if any) are not identifier characters, so a
\* keyword that is part of a larger identifier (PREFIX) gives no token.
C1_WordBoundaryTokens ==
  \A k \in 1..Len(parser.tokens) :
    LET t == parser.tokens[k]
        line == parser.lines[t.line + 1]
    IN /\ t.column > 0 => ~IsWordChar(At(line, t.column - 1))
       /\ TokenEnd(t) < Len(line) => ~IsWordChar(At(line, TokenEnd(t)))

\* C2: no token's position lies inside a block comment or a string.
C2_NoTokenInCommentOrString ==
  \A k \in 1..Len(parser.tokens) :
    <<parser.tokens[k].line, parser.tokens[k].column>>
      \notin InsideCommentOrString(parser.lines)

\* C2 witness: the scan is over and the text spells a keyword at a position
\* inside a comment or a string
C2_Witness ==
  /\ ParserDone(parser)
  /\ \E p \in InsideCommentOrString(parser.lines) :
       KeywordSpelledAt(parser.lines[p[1] + 1], p[2])

\* the spelling of a token type, as characters
SpellingOf(type) == Keywords[CHOOSE k \in 1..Len(Keywords) : KeywordType[k] = type]

\* C18: the tokens are in strict document order and do not overlap; each
\* token's type is its lexeme in upper case, and its lexeme is the text at
\* its line and column.
C18_TokenOrder ==
  /\ \A k \in 1..Len(parser.tokens) :
       LET t == parser.tokens[k]
           line == parser.lines[t.line + 1]
       IN /\ t.type \in Range(KeywordType)
          /\ UpperCase(t.lexeme) = SpellingOf(t.type)
          /\ TokenEnd(t) <= Len(line)
          /\ SubSeq(line, t.column + 1, TokenEnd(t)) = t.lexeme
  /\ \A k \in 1..(Len(parser.tokens) - 1) :
       LET t1 == parser.tokens[k]
           t2 == parser.tokens[k + 1]
       IN \/ t1.line < t2.line
          \/ t1.line = t2.line /\ TokenEnd(t1) <= t2.column

\* C18 witness: the scan is over with two tokens on one line, one of them
\* spelled in mixed case
C18_Witness ==
  /\ ParserDone(parser)
  /\ \E j, k \in 1..Len(parser.tokens) :
       /\ j < k
       /\ parser.tokens[j].line = parser.tokens[k].line
  /\ \E k \in 1..Len(parser.tokens) :
       parser.tokens[k].lexeme # UpperCase(parser.tokens[k].lexeme)

(* ------------------- claims about the comma detector ------------------- *)

\* the comma at <<l, c>> is the last non-whitespace character of its line
EndsItsLine(lines, l, c) ==
  \A k \in (c + 1)..(Len(lines[l + 1]) - 1) : IsWhitespace(At(lines[l + 1], k))

\* the positions of the text in document order, as <<line, column>>
Positions(lines) ==
  UNION {{<<l, c>> : c \in 0..(Len(lines[l + 1]) - 1)} : l \in 0..(Len(lines) - 1)}

Before(p, q) == p[1] < q[1] \/ (p[1] = q[1] /\ p[2] < q[2])

CharAt(lines, p) == At(lines[p[1] + 1], p[2])

\* the commas of the text that lie outside comments and strings
CodeCommas(lines) ==
  {p \in Positions(lines) \ InsideCommentOrString(lines) : CharAt(lines, p) = ","}

\* the enclosure depth (parentheses plus brackets, each clamped at zero) of
\* the text before position p, counting only characters outside comments
\* and strings
DepthAt(lines, p) ==
  LET inside == InsideCommentOrString(lines)
      RECURSIVE count(_, _, _, _)
      count(l, c, pd, bd) ==
        IF l > p[1] \/ (l = p[1] /\ c >= p[2]) THEN pd + bd
        ELSE IF c >= Len(lines[l + 1]) THEN count(l + 1, 0, pd, bd)
        ELSE IF <<l, c>> \in inside THEN count(l, c + 1, pd, bd)
        ELSE LET ch == lines[l + 1][c + 1] IN
          IF ch = "(" THEN count(l, c + 1, pd + 1, bd)
          ELSE IF ch = ")" THEN count(l, c + 1, Max(pd - 1, 0), bd)
          ELSE IF ch = "[" THEN count(l, c + 1, pd, bd + 1)
          ELSE IF ch = "]" THEN count(l, c + 1, pd, Max(bd - 1, 0))
          ELSE count(l, c + 1, pd, bd)
  IN count(0, 0, 0, 0)

\* the first significant character on the lines after line l: the first
\* position that is neither whitespace nor part of a block comment; Undef
\* when there is none
FirstSignificantAfter(lines, l) ==
  LET inside == InsideCommentOrString(lines)
      cand == {p \in Positions(lines) \ inside :
                 p[1] > l /\ ~IsWhitespace(CharAt(lines, p))}
  IN IF cand = {} THEN Undef
     ELSE CharAt(lines, CHOOSE p \in cand : \A q \in cand : q = p \/ Before(p, q))

\* the kinds of the issues reported for the comma at p, in order
IssuesAt(issues, p) ==
  SelectSeq(issues, LAMBDA x : x.line = p[1] /\ x.startCol = p[2])

KindsAt(issues, p) ==
  LET at == IssuesAt(issues, p) IN [k \in 1..Len(at) |-> at[k].kind]

\* the commas that end their line inside an enclosure / outside every enclosure
EnclosedLineEndCommas(lines) ==
  {p \in CodeCommas(lines) : EndsItsLine(lines, p[1], p[2]) /\ DepthAt(lines, p) > 0}

TopLevelLineEndCommas(lines) ==
  {p \in CodeCommas(lines) : EndsItsLine(lines, p[1], p[2]) /\ DepthAt(lines, p) = 0}

\* C8: a comma that ends its line inside an enclosure is classified by the
\* first significant character on later lines: a closer gives exactly one
\* trailing issue at the comma, a comma exactly one double issue, anything
\* else (or nothing) no issue.
C8_EnclosedLineEndComma ==
  CommaDone(comma) =>
    \A p \in EnclosedLineEndCommas(comma.lines) :
      LET sig == FirstSignificantAfter(comma.lines, p[1]) IN
      KindsAt(comma.issues, p) =
        IF sig \in Closers THEN <<"trailing">>
        ELSE IF sig = "," THEN <<"double">>
        ELSE <<>>

\* C9: a comma that ends its line outside every enclosure never gives a
\* trailing issue, and gives a double issue only if the first significant
\* character on later lines is a comma.
C9_TopLevelLineEndComma ==
  \A p \in TopLevelLineEndCommas(comma.lines) :
    \A k \in 1..Len(comma.issues) :
      (comma.issues[k].line = p[1] /\ comma.issues[k].startCol = p[2]) =>
        /\ comma.issues[k].kind # "trailing"
        /\ comma.issues[k].kind = "double" =>
             FirstSignificantAfter(comma.lines, p[1]) = ","

\* C9 witness: the scan is over and a top-level comma that ended its line
\* before a closer on a later line got no issue
C9_Witness ==
  /\ CommaDone(comma)
  /\ \E p \in TopLevelLineEndCommas(comma.lines) :
       /\ FirstSignificantAfter(comma.lines, p[1]) \in Closers
       /\ KindsAt(comma.issues, p) = <<>>

\* C10: every issue starts at its comma and has startCol < endCol; when the
\* comma ends its line (the character that classified it lies on a later
\* line) the span is just the comma.
C10_IssueSpan ==
  \A k \in 1..Len(comma.issues) :
    LET x == comma.issues[k] IN
    /\ At(comma.lines[x.line + 1], x.startCol) = ","
    /\ x.startCol < x.endCol
    /\ EndsItsLine(comma.lines, x.line, x.startCol) => x.endCol = x.startCol + 1

\* the first significant character after position p, on p's line or a later
\* one: the first position that is neither whitespace nor part of a block
\* comment; Undef when there is none
NextSignificant(lines, p) ==
  LET inside == InsideCommentOrString(lines)
      cand == {q \in Positions(lines) \ inside :
                 Before(p, q) /\ ~IsWhitespace(CharAt(lines, q))}
  IN IF cand = {} THEN Undef
     ELSE CharAt(lines, CHOOSE q \in cand : \A r \in cand : r = q \/ Before(q, r))

\* C11: a comma inside an open enclosure followed, through whitespace and
\* block comments only, by a closer is reported as a trailing issue, and a
\* comma followed that way by another comma is reported as a double issue,
\* also when a block comment sits between them on the comma's own line.
C11_CommentsBetween ==
  CommaDone(comma) =>
    \A p \in CodeCommas(comma.lines) :
      LET sig == NextSignificant(comma.lines, p)
          kinds == Range(KindsAt(comma.issues, p))
      IN /\ (sig \in Closers /\ DepthAt(comma.lines, p) > 0) => "trailing" \in kinds
         /\ sig = "," => "double" \in kinds

\* the commas that end their line, at any depth
LineEndCommas(lines) == {p \in CodeCommas(lines) : EndsItsLine(lines, p[1], p[2])}

\* the closers and commas on the lines after line l that lie inside a block
\* comment, with nothing but whitespace and comments between line l and them
CommentedOutAfter(lines, l) ==
  {q \in InsideCommentOrString(lines) :
     /\ q[1] > l
     /\ CharAt(lines, q) \in Closers \cup {","}
     /\ \A r \in Positions(lines) \ InsideCommentOrString(lines) :
          (r[1] > l /\ Before(r, q)) => IsWhitespace(CharAt(lines, r))}

\* C12: the cross-line look-ahead never takes a character inside a block
\* comment as the significant one, so a line-ending comma followed on later
\* lines by commented-out closers or commas and then by list content (or by
\* nothing) gets no issue.
C12_LookaheadSkipsComments ==
  /\ (~CommaDone(comma)
        /\ CommaBranch(comma) \in {"endOfLineOutside", "endOfLineInside"}) =>
       LET nextSig == findFirstSignificantCharFrom(comma.lines, comma.lineNum + 1,
                                                   comma.inBlockComment)
       IN nextSig # Null =>
            <<nextSig.line, nextSig.col>> \notin InsideCommentOrString(comma.lines)
  /\ CommaDone(comma) =>
       \A p \in LineEndCommas(comma.lines) :
         FirstSignificantAfter(comma.lines, p[1]) \notin Closers \cup {","} =>
           KindsAt(comma.issues, p) = <<>>

\* C12 witness: the scan is over; an enclosed comma that ended its line is
\* followed on a later line by a commented-out closer and then by list
\* content, and got no issue
C12_Witness ==
  /\ CommaDone(comma)
  /\ \E p \in EnclosedLineEndCommas(comma.lines) :
       /\ \E q \in CommentedOutAfter(comma.lines, p[1]) : CharAt(comma.lines, q) \in Closers
       /\ IsWordChar(FirstSignificantAfter(comma.lines, p[1]))
       /\ KindsAt(comma.issues, p) = <<>>

\* the two enclosure counts over the code characters before position p, a
\* closer at count 0 leaving the count at 0
ClampedDepths(lines, p) ==
  LET inside == InsideCommentOrString(lines)
      RECURSIVE count(_, _, _, _)
      count(l, c, pd, bd) ==
        IF l >= Len(lines) \/ l > p[1] \/ (l = p[1] /\ c >= p[2]) THEN <<pd, bd>>
        ELSE IF c >= Len(lines[l + 1]) THEN count(l + 1, 0, pd, bd)
        ELSE IF <<l, c>> \in inside THEN count(l, c + 1, pd, bd)
        ELSE LET ch == lines[l + 1][c + 1] IN
          IF ch = "(" THEN count(l, c + 1, pd + 1, bd)
          ELSE IF ch = ")" THEN count(l, c + 1, IF pd = 0 THEN 0 ELSE pd - 1, bd)
          ELSE IF ch = "[" THEN count(l, c + 1, pd, bd + 1)
          ELSE IF ch = "]" THEN count(l, c + 1, pd, IF bd = 0 THEN 0 ELSE bd - 1)
          ELSE count(l, c + 1, pd, bd)
  IN count(0, 0, 0, 0)

\* the closers in code that are seen with their count at 0
ExcessClosers(lines) ==
  {q \in Positions(lines) \ InsideCommentOrString(lines) :
     \/ CharAt(lines, q) = ")" /\ ClampedDepths(lines, q)[1] = 0
     \/ CharAt(lines, q) = "]" /\ ClampedDepths(lines, q)[2] = 0}

\* C20: at every step of findCommaIssues both counters are at least 0 and
\* equal the counts over the code before the cursor, in which a closer at
\* count 0 leaves the count at 0 and brackets in comments or strings do not
\* count; so a line-ending comma is taken as enclosed exactly when those
\* counts are not both 0, also after excess closers.
C20_DepthClamped ==
  LET ref == ClampedDepths(comma.lines, <<comma.lineNum, comma.i>>) IN
  /\ comma.parenDepth >= 0
  /\ comma.bracketDepth >= 0
  /\ <<comma.parenDepth, comma.bracketDepth>> = ref
  /\ (~CommaDone(comma)
        /\ CommaBranch(comma) \in {"endOfLineOutside", "endOfLineInside"}) =>
       (CommaBranch(comma) = "endOfLineInside" <=> ref[1] + ref[2] > 0)

\* C20 witness: the scan is over; after an excess closer and a later opener
\* a comma that ended its line before a closer got its trailing issue
C20_Witness ==
  /\ CommaDone(comma)
  /\ \E p \in LineEndCommas(comma.lines) :
       /\ \E q \in ExcessClosers(comma.lines) : Before(q, p)
       /\ ClampedDepths(comma.lines, p)[1] + ClampedDepths(comma.lines, p)[2] > 0
       /\ KindsAt(comma.issues, p) = <<"trailing">>

\* the next character after position p on its own line that is not
\* whitespace, if the line has one
SameLineNext(lines, p) ==
  LET line == lines[p[1] + 1]
      cand == {c \in (p[2] + 1)..(Len(line) - 1) : ~IsWhitespace(line[c + 1])}
  IN IF cand = {} THEN Undef
     ELSE line[(CHOOSE c \in cand : \A d \in cand : c <= d) + 1]

\* C23: every comma outside comments and strings whose next character on
\* its line, whitespace aside, is ) or ] gets a trailing issue over just the
\* comma, the second comma of a same-line double comma included.
C23_SameLineTrailing ==
  CommaDone(comma) =>
    \A p \in CodeCommas(comma.lines) :
      SameLineNext(comma.lines, p) \in Closers =>
        \E k \in 1..Len(comma.issues) :
          /\ comma.issues[k].kind = "trailing"
          /\ comma.issues[k].line = p[1]
          /\ comma.issues[k].startCol = p[2]
          /\ comma.issues[k].endCol = p[2] + 1

(* ---------------------- claims about termination ----------------------- *)

\* the cursor of a scan: <<line, column>> within the bounds of the text
CursorInBounds(st) ==
  /\ st.lineNum \in 0..Len(st.lines)
  /\ st.lineNum < Len(st.lines) => st.i \in 0..(Len(st.lines[st.lineNum + 1]) + 1)

\* st2 is further in the text than st1
CursorAfter(st1, st2) ==
  /\ st2.lines = st1.lines
  /\ \/ st2.lineNum > st1.lineNum
     \/ st2.lineNum = st1.lineNum /\ st2.i > st1.i

\* every scan has returned
ScansReturned == ParserDone(parser) /\ CommaDone(comma) /\ stream.ended

\* every iteration that can run next moves its cursor forward, within bounds
ScansAdvance ==
  /\ CursorInBounds(parser)
  /\ CursorInBounds(comma)
  /\ ~ParserDone(parser) => CursorAfter(parser, ParserStep(parser))
  /\ ~CommaDone(comma) => CursorAfter(comma, CommaStep(comma))
  /\ Len(stream.tokens) <= Len(parser.tokens)

\* C13: parseEssbase, findCommaIssues (look-ahead included) and both balance
\* rules return for every text: every iteration of a scan loop moves the
\* cursor forward or goes to the next line, and every scan ends, also with
\* an unterminated comment, an unterminated string, or a backslash at the
\* end of a line.
C13_ScansTerminate == []ScansAdvance /\ <>ScansReturned

\* C13 witness: every scan has returned for a text with a backslash as the
\* last character of a line, inside a string that is never closed
C13_Witness ==
  /\ ScansReturned
  /\ \E l \in 1..Len(parser.lines) :
       LET line == parser.lines[l] IN
       /\ Len(line) >= 2
       /\ line[Len(line)] = "\\"
       /\ line[Len(line) - 1] = "\""

(* ------------- claims about the two scanners side by side -------------- *)

\* the positions from the start of line l up to, not including, the
\* position the look-ahead returns (the end of the text when it returns null)
LookedOver(lines, l, nextSig) ==
  {p \in Positions(lines) :
     /\ p[1] >= l
     /\ nextSig # Null => Before(p, <<nextSig.line, nextSig.col>>)}

\* C24: on the same text parseEssbase and the main loop of findCommaIssues
\* have the same inside-block-comment flag at every line start and pass
\* over the same positions as comment and as string; the look-ahead started
\* at a line-ending comma passes over, up to where it returns, exactly the
\* positions the main loop passes over as block comment.
C24_ScannersAgree ==
  /\ (/\ ~ParserDone(parser) /\ ~CommaDone(comma)
      /\ parser.lineNum = comma.lineNum
      /\ parser.i = 0 /\ comma.i = 0) => parser.inBlockComment = comma.inBlockComment
  /\ ParserSkips(text) = CommaSkips(text)
  /\ (~CommaDone(comma)
        /\ CommaBranch(comma) \in {"endOfLineOutside", "endOfLineInside"}) =>
       LET nextSig == findFirstSignificantCharFrom(comma.lines, comma.lineNum + 1,
                                                   comma.inBlockComment)
       IN LookaheadSkips(comma.lines, comma.lineNum + 1, comma.inBlockComment)
            = CommaSkips(text).comment
                \cap LookedOver(comma.lines, comma.lineNum + 1, nextSig)

\* C24 witness: the comma scan is at a line-ending comma whose look-ahead
\* passes over a block comment on the next line, and the parser is already
\* inside that comment
C24_Witness ==
  /\ ~CommaDone(comma)
  /\ CommaBranch(comma) \in {"endOfLineOutside", "endOfLineInside"}
  /\ LookaheadSkips(comma.lines, comma.lineNum + 1, comma.inBlockComment) # {}
  /\ ~ParserDone(parser)
  /\ parser.lineNum = comma.lineNum + 1
  /\ parser.inBlockComment

(* -------------- claims about unterminated comments and strings -------------- *)

\* the openers left without a closer: the opener of the block comment that
\* is still open at the end of the text (at most one), and the opening
\* quotes of the strings still open at the end of their line
LeftOpen(lines) ==
  LET RECURSIVE walk(_, _, _, _, _)
      walk(l, c, mode, from, acc) ==
        IF l >= Len(lines)
        THEN [comment |-> IF mode = "comment" THEN {from} ELSE {}, strings |-> acc]
        ELSE LET line == lines[l + 1] IN
          IF c >= Len(line)
          THEN IF mode = "comment" THEN walk(l + 1, 0, "comment", from, acc)
               ELSE IF mode = "string" THEN walk(l + 1, 0, "code", from, acc \cup {from})
               ELSE walk(l + 1, 0, "code", from, acc)
          ELSE IF mode = "comment"
          THEN IF StartsWith(line, CloseComment, c)
               THEN walk(l, c + 2, "code", from, acc)
               ELSE walk(l, c + 1, "comment", from, acc)
          ELSE IF mode = "string"
          THEN IF line[c + 1] = "\\" THEN walk(l, c + 2, "string", from, acc)
               ELSE IF line[c + 1] = "\"" THEN walk(l, c + 1, "code", from, acc)
               ELSE walk(l, c + 1, "string", from, acc)
          ELSE IF StartsWith(line, OpenComment, c)
          THEN walk(l, c + 2, "comment", <<l, c>>, acc)
          ELSE IF line[c + 1] = "\""
          THEN walk(l, c + 1, "string", <<l, c>>, acc)
          ELSE walk(l, c + 1, "code", from, acc)
  IN walk(0, 0, "code", <<0, 0>>, {})

\* a keyword spelled at the start of the line as a whole word
KeywordLeads(line) ==
  \E k \in 1..Len(Keywords) :
    LET kw == Keywords[k] IN
    /\ Len(line) >= Len(kw)
    /\ \A j \in 1..Len(kw) : ToUpper(line[j]) = kw[j]
    /\ Len(line) = Len(kw) \/ ~IsWordChar(line[Len(kw) + 1])

\* a keyword spelled somewhere on the line
KeywordSpelled(line) ==
  \E c \in 0..(Len(line) - 1) : KeywordLeads(SubSeq(line, c + 1, Len(line)))

\* the positions the scans have reported so far: tokens, comma issues and
\* the diagnostics of the two balance rules
ReportedPositions ==
  {<<parser.tokens[k].line, parser.tokens[k].column>> : k \in 1..Len(parser.tokens)}
    \cup {<<comma.issues[k].line, comma.issues[k].startCol>> : k \in 1..Len(comma.issues)}
    \cup {<<fixRule.diags[k].start.line, fixRule.diags[k].start.character>> :
             k \in 1..Len(fixRule.diags)}
    \cup {<<ifRule.diags[k].start.line, ifRule.diags[k].start.character>> :
             k \in 1..Len(ifRule.diags)}

CountType(tokens, ty) == Cardinality({k \in 1..Len(tokens) : tokens[k].type = ty})

CountCode(diags, code) == Cardinality({k \in 1..Len(diags) : diags[k].code = code})

\* the token that closes the opener at index k, by LIFO matching: the first
\* later index where the closers since k outnumber the openers since k; 0 if
\* the opener stays open
MatchOf(tokens, k, open, close) ==
  LET excess(m) ==
        Cardinality({j \in (k + 1)..m : tokens[j].type = close}) >
        Cardinality({j \in (k + 1)..m : tokens[j].type = open})
      ms == {m \in (k + 1)..Len(tokens) : excess(m)}
  IN IF ms = {} THEN 0 ELSE CHOOSE m \in ms : \A n \in ms : m <= n

\* the indices of the openers still open at the end of the tokens, ascending
OpenIndices(tokens, open, close) ==
  {k \in 1..Len(tokens) : tokens[k].type = open /\ MatchOf(tokens, k, open, close) = 0}

\* the indices of the closers that close no opener
UnmatchedIndices(tokens, open, close) ==
  {m \in 1..Len(tokens) :
     /\ tokens[m].type = close
     /\ \A k \in 1..(m - 1) :
          tokens[k].type = open => MatchOf(tokens, k, open, close) # m}

\* the elements of a finite set of numbers, ascending
Ascending(S) ==
  LET RECURSIVE sorted(_)
      sorted(T) == IF T = {} THEN <<>>
                   ELSE LET m == CHOOSE x \in T : \A y \in T : x <= y
                        IN <<m>> \o sorted(T \ {m})
  IN sorted(S)

\* what a diagnostic says: its code and its range
Shown(d) == <<d.code, d.start.line, d.start.character, d.end.line, d.end.character>>

ShownAll(diags) == [k \in 1..Len(diags) |-> Shown(diags[k])]

\* a diagnostic of the given code over the span of token t
Anchored(code, t) == <<code, t.line, t.column, t.line, t.column + Len(t.lexeme)>>

AnchoredAll(code, tokens, idx) ==
  LET order == Ascending(idx) IN [k \in 1..Len(order) |-> Anchored(code, tokens[order[k]])]

\* every prefix of the tokens has at least as many FIX as ENDFIX, and the
\* totals are equal
FixBalanced(tokens) ==
  /\ \A n \in 0..Len(tokens) :
       CountType(SubSeq(tokens, 1, n), "FIX") >=
       CountType(SubSeq(tokens, 1, n), "ENDFIX")
  /\ CountType(tokens, "FIX") = CountType(tokens, "ENDFIX")

\* C3: at the end of the tokens the FIX/ENDFIX rule's missingEndfix count
\* less its unmatchedEndfix count is the FIX count less the ENDFIX count,
\* and it reports nothing when the FIX and ENDFIX tokens are balanced.
C3_MissingEndfixCount ==
  stream.ended =>
    /\ CountCode(fixRule.diags, "essbase.fix.missingEndfix")
         - CountCode(fixRule.diags, "essbase.fix.unmatchedEndfix")
       = CountType(stream.tokens, "FIX") - CountType(stream.tokens, "ENDFIX")
    /\ FixBalanced(stream.tokens) => fixRule.diags = <<>>

\* C3 witness: the tokens ended with a FIX closed by an ENDFIX, an ENDFIX
\* that closes nothing and a FIX left open
C3_Witness ==
  /\ stream.ended
  /\ CountCode(fixRule.diags, "essbase.fix.missingEndfix") = 1
  /\ CountCode(fixRule.diags, "essbase.fix.unmatchedEndfix") = 1
  /\ CountType(stream.tokens, "ENDFIX") = 2

\* C4: an ENDFIX that finds the stack empty gives one unmatchedEndfix over
\* its own span and leaves the stack empty; at the end each FIX still open
\* gives one missingEndfix over its span; the rule reports nothing else.
C4_FixDiagnostics ==
  LET unmatched == AnchoredAll("essbase.fix.unmatchedEndfix", stream.tokens,
                               UnmatchedIndices(stream.tokens, "FIX", "ENDFIX"))
      open == Ascending(OpenIndices(stream.tokens, "FIX", "ENDFIX"))
      missing == AnchoredAll("essbase.fix.missingEndfix", stream.tokens,
                             OpenIndices(stream.tokens, "FIX", "ENDFIX"))
  IN /\ fixRule.stack = [k \in 1..Len(open) |-> stream.tokens[open[k]]]
     /\ ~stream.ended => ShownAll(fixRule.diags) = unmatched
     /\ stream.ended => ShownAll(fixRule.diags) = unmatched \o missing

\* C4 witness: the tokens ended after an ENDFIX that found the stack empty,
\* away from column 0, an ENDFIX that closed a FIX, and with two FIX left open
C4_Witness ==
  /\ stream.ended
  /\ \E k \in 1..Len(fixRule.diags) :
       /\ fixRule.diags[k].code = "essbase.fix.unmatchedEndfix"
       /\ fixRule.diags[k].start.character > 0
  /\ CountCode(fixRule.diags, "essbase.fix.missingEndfix") = 2
  /\ CountType(stream.tokens, "ENDFIX") = 2

\* the IF that is on top of the stack when the token at index m is seen: the
\* last IF before m that no ENDIF before m closes; 0 with no IF open
TopIfAt(tokens, m) ==
  LET open == {k \in 1..(m - 1) :
                 /\ tokens[k].type = "IF"
                 /\ MatchOf(SubSeq(tokens, 1, m - 1), k, "IF", "ENDIF") = 0}
  IN IF open = {} THEN 0 ELSE CHOOSE k \in open : \A j \in open : j <= k

\* the ELSE tokens before index m seen while the IF at index k was on top
ElsesUnder(tokens, k, m) ==
  {j \in 1..(m - 1) : tokens[j].type = "ELSE" /\ TopIfAt(tokens, j) = k}

\* the diagnostics the ELSE tokens are due, in token order
ElseDiagnosticsDue(tokens) ==
  LET elses == Ascending({m \in 1..Len(tokens) : tokens[m].type = "ELSE"})
      due(m) == IF TopIfAt(tokens, m) = 0
                THEN <<Anchored("essbase.if.unexpectedElse", tokens[m])>>
                ELSE IF ElsesUnder(tokens, TopIfAt(tokens, m), m) = {} THEN <<>>
                ELSE <<Anchored("essbase.if.duplicateElse", tokens[m])>>
      RECURSIVE all(_)
      all(n) == IF n > Len(elses) THEN <<>> ELSE due(elses[n]) \o all(n + 1)
  IN all(1)

ElseCodes == {"essbase.if.unexpectedElse", "essbase.if.duplicateElse"}

\* C5: for every open IF frame the first ELSE seen while it is on top sets
\* elseSeen and gives no diagnostic, every further one gives one
\* duplicateElse at that ELSE, and an ELSE with no IF open gives
\* unexpectedElse.
C5_ElseHandling ==
  /\ ShownAll(SelectSeq(ifRule.diags, LAMBDA d : d.code \in ElseCodes))
       = ElseDiagnosticsDue(stream.tokens)
  /\ \A f \in 1..Len(ifRule.stack) :
       LET k == CHOOSE j \in 1..Len(stream.tokens) :
                  stream.tokens[j] = ifRule.stack[f].ifToken
       IN ifRule.stack[f].elseSeen
            = (ElsesUnder(stream.tokens, k, Len(stream.tokens) + 1) # {})

\* C5 witness: IF ELSE ELSE ENDIF has ended with exactly one diagnostic, a
\* duplicateElse at the second ELSE
C5_Witness ==
  /\ stream.ended
  /\ [k \in 1..Len(stream.tokens) |-> stream.tokens[k].type] = <<"IF", "ELSE", "ELSE", "ENDIF">>
  /\ ShownAll(ifRule.diags) = <<Anchored("essbase.if.duplicateElse", stream.tokens[3])>>

\* the token the loops have just taken
LastToken == stream.tokens[Len(stream.tokens)]

\* the step hands a token of the given type to the two loop bodies
Takes(type) ==
  /\ Len(stream'.tokens) = Len(stream.tokens) + 1
  /\ stream'.tokens[Len(stream'.tokens)].type = type

\* C21: in the IF rule an ELSEIF token leaves the stack and every frame's
\* elseSeen as they are; with a frame on the stack it gives no diagnostic,
\* also when the top frame has seen its ELSE, and with the stack empty it
\* gives exactly one unexpectedElseif over that token.
C21_ElseifHandling ==
  [][Takes("ELSEIF") =>
       /\ ifRule'.stack = ifRule.stack
       /\ Len(ifRule.stack) > 0 => ifRule'.diags = ifRule.diags
       /\ Len(ifRule.stack) = 0 =>
            /\ Len(ifRule'.diags) = Len(ifRule.diags) + 1
            /\ SubSeq(ifRule'.diags, 1, Len(ifRule.diags)) = ifRule.diags
            /\ Shown(ifRule'.diags[Len(ifRule'.diags)])
                 = Anchored("essbase.if.unexpectedElseif",
                            stream'.tokens[Len(stream'.tokens)])]_vars

\* C21 witness: an ELSEIF has just been taken after IF ELSE, the frame has
\* seen its ELSE, and nothing is reported
C21_Witness ==
  /\ ~stream.ended
  /\ [k \in 1..Len(stream.tokens) |-> stream.tokens[k].type] = <<"IF", "ELSE", "ELSEIF">>
  /\ Len(ifRule.stack) = 1
  /\ ifRule.stack[1].elseSeen
  /\ ifRule.diags = <<>>

\* the frame of the IF at index k has seen an ELSE of its own: an ELSE after
\* it with as many IF as ENDIF in between
OwnElseSeen(tokens, k) ==
  \E j \in (k + 1)..Len(tokens) :
    /\ tokens[j].type = "ELSE"
    /\ CountType(SubSeq(tokens, k + 1, j - 1), "IF")
         = CountType(SubSeq(tokens, k + 1, j - 1), "ENDIF")

\* the diagnostics of the IF rule grow by exactly one, of the given code,
\* over token t
IfReports(code, t) ==
  /\ Len(ifRule'.diags) = Len(ifRule.diags) + 1
  /\ SubSeq(ifRule'.diags, 1, Len(ifRule.diags)) = ifRule.diags
  /\ Shown(ifRule'.diags[Len(ifRule'.diags)]) = Anchored(code, t)

\* every frame's elseSeen tells whether its own IF has seen an ELSE
FramesTrackOwnElse ==
  \A f \in 1..Len(ifRule.stack) :
    LET k == CHOOSE j \in 1..Len(stream.tokens) : stream.tokens[j] = ifRule.stack[f].ifToken
    IN ifRule.stack[f].elseSeen = OwnElseSeen(stream.tokens, k)

\* C22: elseSeen is kept per frame: an ELSE changes no frame below the top,
\* an IF pushes a frame and an ENDIF pops one without touching the frames
\* below, so an enclosing frame has after the nested ENDIF the elseSeen it
\* had before the nested IF; an ENDIF with the stack empty gives
\* unmatchedEndif, and at the end each frame left gives one missingEndif
\* over its IF token.
C22_ElseSeenPerFrame ==
  /\ []FramesTrackOwnElse
  /\ [][/\ Takes("ELSE") =>
            /\ Len(ifRule'.stack) = Len(ifRule.stack)
            /\ \A f \in 1..(Len(ifRule.stack) - 1) : ifRule'.stack[f] = ifRule.stack[f]
        /\ Takes("IF") =>
            ifRule'.stack = Append(ifRule.stack,
                              [ifToken |-> stream'.tokens[Len(stream'.tokens)],
                               elseSeen |-> FALSE])
        /\ (Takes("ENDIF") /\ Len(ifRule.stack) > 0) =>
            /\ ifRule'.stack = SubSeq(ifRule.stack, 1, Len(ifRule.stack) - 1)
            /\ ifRule'.diags = ifRule.diags
        /\ (Takes("ENDIF") /\ Len(ifRule.stack) = 0) =>
            /\ ifRule'.stack = <<>>
            /\ IfReports("essbase.if.unmatchedEndif", stream'.tokens[Len(stream'.tokens)])
        /\ (~stream.ended /\ stream'.ended) =>
            ShownAll(ifRule'.diags) = ShownAll(ifRule.diags) \o
              [f \in 1..Len(ifRule.stack) |->
                 Anchored("essbase.if.missingEndif", ifRule.stack[f].ifToken)]]_vars

\* C22 witness: IF IF ELSE ENDIF ELSE has ended; the ELSE of the nested IF
\* did not count for the enclosing one, whose own ELSE is accepted, and the
\* only diagnostic is the missingEndif of the enclosing IF
C22_Witness ==
  /\ stream.ended
  /\ [k \in 1..Len(stream.tokens) |-> stream.tokens[k].type]
       = <<"IF", "IF", "ELSE", "ENDIF", "ELSE">>
  /\ ShownAll(ifRule.diags) = <<Anchored("essbase.if.missingEndif", stream.tokens[1])>>

FixTypes == {"FIX", "ENDFIX"}

IfTypes == {"IF", "ELSEIF", "ELSE", "ENDIF"}

\* the tokens of the given types, in their order
OnlyTypes(tokens, types) == SelectSeq(tokens, LAMBDA t : t.type \in types)

TypesOf(tokens) == [k \in 1..Len(tokens) |-> tokens[k].type]

\* C25: the two balance rules are independent: the FIX/ENDFIX rule reports
\* what it reports on the FIX and ENDFIX tokens alone, the IF rule what it
\* reports on the IF, ELSEIF, ELSE and ENDIF tokens alone, and a token of
\* one family leaves the other rule's stack and diagnostics as they are; so
\* FIX IF ENDFIX ENDIF gets no diagnostic from either rule.
C25_RulesIndependent ==
  /\ [](stream.ended =>
         /\ fixRule.diags = fixEndfixBalanceRule(OnlyTypes(stream.tokens, FixTypes), NoOptions)
         /\ ifRule.diags = ifElseEndifBalanceRule(OnlyTypes(stream.tokens, IfTypes), NoOptions)
         /\ TypesOf(stream.tokens) = <<"FIX", "IF", "ENDFIX", "ENDIF">> =>
              fixRule.diags = <<>> /\ ifRule.diags = <<>>)
  /\ [][/\ (\E ty \in IfTypes : Takes(ty)) => fixRule' = fixRule
        /\ (\E ty \in FixTypes : Takes(ty)) => ifRule' = ifRule]_vars

\* C25 witness: the crossed nesting FIX IF ENDFIX ENDIF has ended without a
\* diagnostic from either rule
C25_Witness ==
  /\ stream.ended
  /\ TypesOf(stream.tokens) = <<"FIX", "IF", "ENDFIX", "ENDIF">>
  /\ fixRule.diags = <<>>
  /\ ifRule.diags = <<>>

(* ----------------------- claims about the lint pass --------------------- *)

CommaRuleId == "essbase.syntax.rogueComma"

CommaCodes == {"essbase.comma.trailing", "essbase.comma.double"}

FixCodes == {"essbase.fix.unmatchedEndfix", "essbase.fix.missingEndfix"}

IfCodes ==
  {"essbase.if.unexpectedElseif", "essbase.if.unexpectedElse", "essbase.if.duplicateElse",
   "essbase.if.unmatchedEndif", "essbase.if.missingEndif"}

WithCodes(diags, codes) == SelectSeq(diags, LAMBDA d : d.code \in codes)

\* the setting gives the rule no severity: no entry, or an entry without one
NoSeverityFor(cfg, id) == id \notin DOMAIN cfg \/ cfg[id].severity = Undef

\* C6: the lint pass hands the document text to the comma rule: with the
\* comma rule enabled, the published diagnostics hold one comma diagnostic
\* per issue findCommaIssues finds in the text.
C6_CommaIssuesPublished ==
  \A d \in DOMAIN collection :
    RuleConfigOf(config, CommaRuleId).enabled # "false" =>
      Len(WithCodes(collection[d], CommaCodes)) = Len(findCommaIssues(docs[d].text))

Severities == {"error", "warning", "info"}

\* the severity a rule gives its diagnostics when none is configured
DefaultSeverity(id) == IF id = CommaRuleId THEN "warning" ELSE "error"

\* the codes of the diagnostics of a rule
CodesOf(id) ==
  CASE id = "essbase.fix.balance" -> FixCodes
    [] id = "essbase.if.balance" -> IfCodes
    [] id = CommaRuleId -> CommaCodes
    [] OTHER -> {}

\* the entry of the rule is present and garbled
GarbledEnabled(cfg, id) ==
  id \in DOMAIN cfg /\ cfg[id].enabled \notin {"true", "false", Undef}

GarbledSeverity(cfg, id) ==
  id \in DOMAIN cfg /\ cfg[id].severity \notin Severities \cup {Undef}

\* the RuleDiagnostics the lint pass gets from the rule for the text
RuleResult(id, docText, cfg) ==
  Apply(id, parseEssbase(docText), RuleConfigOf(cfg, id), LintContext(docText))

\* C14: a rule whose entry is garbled is treated as enabled (its diagnostics
\* are among those published) and its diagnostics carry the rule's default
\* severity; every RuleDiagnostic's severity is one of error, warning, info.
C14_GarbledEntry ==
  \A d \in DOMAIN collection : \A id \in RuleIds :
    LET res == RuleResult(id, docs[d].text, config) IN
    /\ GarbledEnabled(config, id) =>
         WithCodes(collection[d], CodesOf(id)) = [k \in 1..Len(res) |-> ToDiagnostic(res[k])]
    /\ GarbledSeverity(config, id) =>
         \A k \in 1..Len(res) : res[k].severity = DefaultSeverity(id)
    /\ RuleConfigOf(config, id).enabled # "false" =>
         \A k \in 1..Len(res) : res[k].severity \in Severities

\* the place in the registry of the rule that gives the code
RankOfCode(code) == CHOOSE r \in 1..Len(ALL_RULES) : code \in CodesOf(ALL_RULES[r])

\* the two settings treat the rule alike
SameEntry(c1, c2, id) == RuleConfigOf(c1, id) = RuleConfigOf(c2, id)

\* C15: the published list is the concatenation, in registry order, of the
\* results of the rules not configured with enabled = false: a disabled rule
\* contributes nothing, and what a rule contributes is the same under every
\* setting that treats that rule alike, whatever it says of the other rules.
C15_RegistryConcatenation ==
  \A d \in DOMAIN collection :
    /\ \A j, k \in 1..Len(collection[d]) :
         j < k => RankOfCode(collection[d][j].code) <= RankOfCode(collection[d][k].code)
    /\ \A id \in RuleIds :
         LET res == RuleResult(id, docs[d].text, config) IN
         WithCodes(collection[d], CodesOf(id)) =
           IF RuleConfigOf(config, id).enabled = "false" THEN <<>>
           ELSE [k \in 1..Len(res) |-> ToDiagnostic(res[k])]
    /\ \A c2 \in Configs :
         LET other == LintDiagnostics(docs[d].text, c2) IN
         \A id \in RuleIds :
           SameEntry(config, c2, id) =>
             WithCodes(other, CodesOf(id)) = WithCodes(collection[d], CodesOf(id))

\* C15 witness: the IF rule alone is disabled, the text has an ELSE outside
\* of an IF and a FIX left open; the FIX diagnostic is published and no IF
\* diagnostic is
C15_Witness ==
  \E d \in DOMAIN collection :
    /\ DOMAIN config = {"essbase.if.balance"}
    /\ config["essbase.if.balance"].enabled = "false"
    /\ ifElseEndifBalanceRule(parseEssbase(docs[d].text), NoOptions) # <<>>
    /\ WithCodes(collection[d], FixCodes) # <<>>
    /\ WithCodes(collection[d], IfCodes) = <<>>

\* C16: after any sequence of open, change and editor-switch events the
\* diagnostics published for a document are exactly those of a lint pass
\* over its present full text; nothing of an earlier pass or of another
\* document is among them, documents that are not calc scripts have none,
\* and linting the same text again publishes the same list.
C16_FreshEachLint ==
  /\ \A d \in DOMAIN collection :
       /\ docs[d].languageId = "essbase"
       /\ collection[d] = LintDiagnostics(docs[d].text, config)
  /\ \A d \in DocIds :
       d \in DOMAIN collection => lintDocument(d, docs[d], collection, config) = collection

\* C16 witness: the calc script was linted after several changes and has
\* diagnostics, and the second calc script was linted too, with other ones
C16_Witness ==
  /\ {"calc", "other"} \subseteq DOMAIN collection
  /\ Len(docs["calc"].text) > 5
  /\ collection["calc"] # <<>>
  /\ collection["other"] # <<>>
  /\ collection["calc"] # collection["other"]

(* ---------------------- claims about the quick fixes ------------------- *)

\* the closing keyword a quick fix inserts for the code, <<>> when it has none
ClosingKeywordFor(code) ==
  IF code = "essbase.fix.missingEndfix" THEN <<"E","N","D","F","I","X">>
  ELSE IF code = "essbase.if.missingEndif" THEN <<"E","N","D","I","F">>
  ELSE <<>>

\* the line after line l of the text t is exactly s, and line l is as before
OnOwnLineAfter(before, t, l, s) ==
  LET old == SplitLines(before)
      new == SplitLines(t)
  IN /\ Len(new) >= l + 2
     /\ new[l + 1] = old[l + 1]
     /\ new[l + 2] = s

\* C17: for a missingEndfix or missingEndif diagnostic whose opening token
\* is on line L the quick fix is exactly one insertion of the indentation of
\* line L, the closing keyword and a line end at line L + 1, column 0, and
\* applying it puts the closing keyword on its own line right after line L,
\* also when L is the last line; any other code gives no action.
C17_QuickFixInsertion ==
  \A d \in DOMAIN collection : \A k \in 1..Len(collection[d]) :
    LET diag == collection[d][k]
        L == diag.range.start.line
        actions == provideCodeActions(docs[d], <<diag>>)
        keyword == ClosingKeywordFor(diag.code)
        indent == LET line == LineAt(docs[d], L) IN
                  SubSeq(line, 1, CHOOSE n \in 0..Len(line) :
                                    /\ \A j \in 1..n : IsWhitespace(line[j])
                                    /\ n < Len(line) => ~IsWhitespace(line[n + 1]))
    IN IF keyword = <<>> THEN actions = <<>>
       ELSE /\ Len(actions) = 1
            /\ actions[1].edit.position = [line |-> L + 1, character |-> 0]
            /\ actions[1].edit.newText = indent \o keyword \o <<"\n">>
            /\ \A t2 \in EditOutcomes(docs[d].text, actions[1].edit) :
                 OnOwnLineAfter(docs[d].text, t2, L, indent \o keyword)

\* the published diagnostics of the given code
CountPublished(diags, code) == Cardinality({k \in 1..Len(diags) : diags[k].code = code})

\* C26: for a published missingEndfix the edit of its quick fix gives a text
\* whose lint has exactly one missingEndfix fewer and no unmatchedEndfix
\* more.
C26_QuickFixRepairs ==
  \A d \in DOMAIN collection : \A k \in 1..Len(collection[d]) :
    (/\ collection[d][k].code = "essbase.fix.missingEndfix"
     /\ collection[d] = LintDiagnostics(docs[d].text, config)) =>
      LET actions == provideCodeActions(docs[d], <<collection[d][k]>>) IN
      \A t2 \in EditOutcomes(docs[d].text, actions[1].edit) :
        LET after == LintDiagnostics(t2, config) IN
        /\ CountPublished(after, "essbase.fix.missingEndfix")
             = CountPublished(collection[d], "essbase.fix.missingEndfix") - 1
        /\ CountPublished(after, "essbase.fix.unmatchedEndfix")
             <= CountPublished(collection[d], "essbase.fix.unmatchedEndfix")

====
